---------------------------- MODULE Spec2Model ----------------------------
(***************************************************************************)
(* A model of the real-time event distribution subsystem of kitpdr/pdraim: *)
(* the connection registry (SSEManager), the catch-up log (MessageQueue),  *)
(* the event bus (SSEEventEmitter), the stream endpoint (GET /api/sse) and *)
(* the reconnecting client (SSEClient).                                    *)
(*                                                                         *)
(* crypto.randomUUID() is modelled by a counter, nextId: every call takes  *)
(* the next integer, so ids are fresh and never reused.  Date.now() is the *)
(* variable now, in milliseconds.  The result of the last operation, with  *)
(* its arguments, is kept in ret so that properties can speak about what   *)
(* an operation returned.                                                  *)
(***************************************************************************)
EXTENDS Integers, Sequences, FiniteSets, TLC

VARIABLES
    connections,      \* SSEManager.connections: connectionId -> SSEConnection
    userConnections,  \* SSEManager.userConnections: userId -> set of connectionIds
    queues,           \* MessageQueue.queues: roomId -> sequence of QueuedMessage
    maxSize,          \* MessageQueue.maxSize
    enqueued,         \* history: roomId -> every message ever enqueued, in order
    listeners,        \* SSEEventEmitter.listeners: channel -> listeners, in insertion order
    listenerCount,    \* SSEEventEmitter.listenerCount
    calls,            \* history: every invocation of a listener, in call order
    streams,          \* the streams of GET /api/sse: stream -> its closure state and sink
    published,        \* history: every event given to the bus, in order
    presence,         \* users.status of the persistence store: userId -> status
    now,              \* Date.now()
    sweepDue,         \* when the stale-sweep interval fires next
    nextId,           \* the next value of crypto.randomUUID()
    ret,              \* the last operation, its arguments and its result
    _status,          \* SSEClient._status
    _lastEventId,     \* SSEClient._lastEventId
    _error,           \* SSEClient._error
    _reconnectAttempts, \* SSEClient._reconnectAttempts
    _connectionId,    \* SSEClient._connectionId
    eventSource,      \* SSEClient.eventSource and the state of that EventSource
    heartbeatTimer,   \* SSEClient.heartbeatTimer: when the timeout is due
    reconnectTimer,   \* SSEClient.reconnectTimer: the timeout and whether it is pending
    requests,         \* history: every stream request the client's transports sent
    acks,             \* history: every POST /api/sse/heartbeat the client sent
    removals,         \* history: the distinct removeConnection calls and their reports
    transports,       \* every EventSource the client has built: its readyState
    timeouts,         \* setTimeout's table beyond the client's two fields
    intervals         \* setInterval's table on the server: the periodic tasks scheduled

regVars   == <<connections, userConnections, removals>>
queueVars == <<queues, maxSize, enqueued>>
busVars   == <<listeners, listenerCount, calls>>
timeVars  == <<now, sweepDue>>
httpVars  == <<streams, published, presence, intervals>>
clientVars == <<_status, _lastEventId, _error, _reconnectAttempts, _connectionId,
                eventSource, heartbeatTimer, reconnectTimer, requests, acks,
                transports, timeouts>>
vars      == <<connections, userConnections, removals, queues, maxSize, enqueued, listeners,
               listenerCount, calls, streams, published, presence, now, sweepDue,
               nextId, ret, clientVars, intervals>>

---------------------------------------------------------------------------
(* Program constants (SSE_CONFIG and literals of the code).                *)

HEARTBEAT_INTERVAL == 30000
STALE_CHECK_INTERVAL == 60000
HEARTBEAT_TIMEOUT == 45000
MESSAGE_QUEUE_TTL == 300000
MESSAGE_QUEUE_MAX_SIZE == 1000
RETRY_INTERVAL == 3000
INITIAL_RECONNECT_DELAY == 1000
MAX_RECONNECT_DELAY == 60000
\* The literal of queue.slice(-50) in MessageQueue.getMessagesSince.
RecentTail == 50
\* the step of the clock in the runs of the cleanup
TTLTickMs == MESSAGE_QUEUE_TTL \div 2
\* request.headers.get('Last-Event-ID') === null; getLatestEventId() === null.
NullId == 0
\* An id that no randomUUID() call ever returned ('unknown-id' of the tests).
UnknownId == -1

(* Bounds of the model.                                                    *)

\* how many connections a run of the registry opens
MaxConns == 2
\* how many messages a run of the small catch-up log enqueues
MaxEnqueues == 4
\* the largest configured maxSize of the small catch-up log
MaxQueueSize == 3
\* the number of distinct payloads offered to enqueue
NumPayloads == 2
\* how many ticks of the clock a run takes
MaxTicks == 4
\* by how much the long catch-up log may exceed the recent-tail cap
TailMargin == 2
\* how many events a run of the bus on its own emits
MaxEmits == 2
\* how far the bus's global listener count may grow
MaxListenerCount == 3
\* how many streams a run of the server opens
MaxStreams == 2
\* how many messages a run of the server broadcasts
MaxBroadcasts == 2
\* streams opened in a run of SpecBroadcast
MaxListeningStreams == 1
\* streams opened in the runs with failing sinks, and the ids drawn before
\* the last operation of such a run starts
MaxFailureStreams == 2
MaxFailureIds == 5
\* streams opened in the runs that end with the shutdown
MaxShutdownStreams == 1
\* how many half TTLs pass in the runs of the cleanup
MaxTTLTicks == 3
\* streams opened in the runs of the sweep with broadcasts
MaxEvictionStreams == 1
\* streams opened in the runs of the presence updates
MaxPresenceStreams == 2
\* streams opened in the runs of the admission
MaxAdmittedStreams == 1
\* connections added in the runs of the heartbeat endpoint
MaxHeartbeatConns == 1
\* streams opened and heartbeat frames written in the runs of the replay
MaxReplayStreams == 1
MaxHeartbeatFrames == 1
\* streams opened in the runs of the stale sweep against the streams
MaxStaleStreams == 1
\* requests sent in the runs of the client's life cycle
MaxLifecycleRequests == 2
\* consecutive failures in the runs of the backoff
MaxBackoffAttempts == 11
\* how many stream requests a run of the client sends
MaxRequests == 3
\* up to which attempt count the EventSource constructor may throw
MaxAttempts == 1
\* how many events a run of the client receives
MaxFrames == 2
\* Math.random() takes the values 0/n .. (n-1)/n for this n
RandomLevels == 2

Users == {"alice", "bob"}
\* DEFAULT_CHAT_ROOM_ID and one other room
DEFAULT_CHAT_ROOM_ID == "room-default"
\* the user of the runs with one user
ReplayUser == "alice"
Rooms == {DEFAULT_CHAT_ROOM_ID, "room-2"}
Payloads == 1..NumPayloads
\* the clock advances in steps of half a heartbeat interval
TickMs == HEARTBEAT_INTERVAL \div 2

---------------------------------------------------------------------------
(* Array helpers, with JavaScript's semantics.                             *)

\* Array.prototype.slice(-n): the last n elements; slice(-0) is slice(0),
\* the whole array.
SliceLast(q, n) ==
    IF n = 0 \/ Len(q) <= n THEN q ELSE SubSeq(q, Len(q) - n + 1, Len(q))

\* Array.prototype.slice(i) for a 0-based i >= 0: the elements from index i on.
SliceFrom(q, i) == SubSeq(q, i + 1, Len(q))

\* Array.prototype.findIndex((m) => m.id === id): the 0-based index of the
\* first match, or -1.
FindIndex(q, id) ==
    IF \E i \in 1..Len(q) : q[i].id = id
    THEN (CHOOSE i \in 1..Len(q) : q[i].id = id /\ \A j \in 1..(i - 1) : q[j].id # id) - 1
    ELSE -1

\* Map.set(k, v) / Map.delete(k) on a function with a finite domain.
MapSet(m, k, v) == (k :> v) @@ m
MapDelete(m, k) == [x \in DOMAIN m \ {k} |-> m[x]]

---------------------------------------------------------------------------
(* MessageQueue                                                            *)

\* enqueue, mutated: trims by keeping the oldest maxSize entries.
EnqueueKeepOldest(qs, max, roomId, event, data, id, ts) ==
    LET message == [id |-> id, event |-> event, data |-> data,
                    timestamp |-> ts, roomId |-> roomId]
        queue == IF roomId \in DOMAIN qs THEN qs[roomId] ELSE <<>>
        pushed == Append(queue, message)
    IN  IF Len(pushed) > max
        THEN MapSet(qs, roomId, SubSeq(pushed, 1, max))
        ELSE MapSet(qs, roomId, pushed)

\* MessageQueue.enqueue(roomId, event, data) with id = crypto.randomUUID()
\* and ts = Date.now(): the queues after the call.
Enqueue(qs, max, roomId, event, data, id, ts) ==
    LET message == [id |-> id, event |-> event, data |-> data,
                    timestamp |-> ts, roomId |-> roomId]
        queue == IF roomId \in DOMAIN qs THEN qs[roomId] ELSE <<>>
        pushed == Append(queue, message)
    IN  IF Len(pushed) > max
        THEN MapSet(qs, roomId, SliceLast(pushed, max))
        ELSE MapSet(qs, roomId, pushed)

\* the filter of cleanup, mutated: an entry whose age equals the TTL is kept.
FilteredKeepsAtTTL(queue, ttl, t) == SelectSeq(queue, LAMBDA m : t - m.timestamp <= ttl)

\* queue.filter((m) => now - m.timestamp < this.ttl)
Filtered(queue, ttl, t) == SelectSeq(queue, LAMBDA m : t - m.timestamp < ttl)

\* the loop of cleanup() over the rooms still to visit, at time t: a room
\* whose filter dropped something is replaced, or deleted when nothing is
\* left of it
RECURSIVE QueueCleanupLoop(_, _, _, _, _)
QueueCleanupLoop(qs, rooms, ttl, t, totalRemoved) ==
    IF rooms = {} THEN [queues |-> qs, result |-> totalRemoved]
    ELSE LET roomId == CHOOSE r \in rooms : TRUE
             queue == qs[roomId]
             filtered == Filtered(queue, ttl, t)
         IN  IF Len(filtered) # Len(queue)
             THEN QueueCleanupLoop(IF Len(filtered) = 0 THEN MapDelete(qs, roomId)
                                   ELSE MapSet(qs, roomId, filtered),
                                   rooms \ {roomId}, ttl, t,
                                   totalRemoved + (Len(queue) - Len(filtered)))
             ELSE QueueCleanupLoop(qs, rooms \ {roomId}, ttl, t, totalRemoved)

\* MessageQueue.cleanup() at time t: the queues after the call and the
\* returned count
QueueCleanup(qs, ttl, t) == QueueCleanupLoop(qs, DOMAIN qs, ttl, t, 0)

\* getMessagesSince, mutated: the slice starts at the entry itself.
GetMessagesSinceInclusive(qs, roomId, lastEventId) ==
    IF roomId \notin DOMAIN qs \/ Len(qs[roomId]) = 0 THEN <<>>
    ELSE LET queue == qs[roomId]
             lastIndex == FindIndex(queue, lastEventId)
         IN  IF lastIndex = -1 THEN SliceLast(queue, RecentTail)
             ELSE SliceFrom(queue, lastIndex)

\* getMessagesSince, mutated: an unknown id returns the whole log.
GetMessagesSinceWholeLog(qs, roomId, lastEventId) ==
    IF roomId \notin DOMAIN qs \/ Len(qs[roomId]) = 0 THEN <<>>
    ELSE LET queue == qs[roomId]
             lastIndex == FindIndex(queue, lastEventId)
         IN  IF lastIndex = -1 THEN queue
             ELSE SliceFrom(queue, lastIndex + 1)

\* MessageQueue.getMessagesSince(roomId, lastEventId)
GetMessagesSince(qs, roomId, lastEventId) ==
    IF roomId \notin DOMAIN qs \/ Len(qs[roomId]) = 0 THEN <<>>
    ELSE LET queue == qs[roomId]
             lastIndex == FindIndex(queue, lastEventId)
         IN  IF lastIndex = -1 THEN SliceLast(queue, RecentTail)
             ELSE SliceFrom(queue, lastIndex + 1)

\* MessageQueue.getLatestEventId(roomId)
GetLatestEventId(qs, roomId) ==
    IF roomId \notin DOMAIN qs \/ Len(qs[roomId]) = 0 THEN NullId
    ELSE qs[roomId][Len(qs[roomId])].id

\* the history kept beside the log: what enqueue was given, in call order
Remember(hist, roomId, event, data, id, ts) ==
    LET message == [id |-> id, event |-> event, data |-> data,
                    timestamp |-> ts, roomId |-> roomId]
    IN  MapSet(hist, roomId,
               Append(IF roomId \in DOMAIN hist THEN hist[roomId] ELSE <<>>, message))

---------------------------------------------------------------------------
(* SSEManager: the registry                                                *)

\* addConnection, mutated: isNewUser is read after the id went into the set.
AddConnectionReadsAfterInsert(conns, uconns, userId, roomId, controller, id, t) ==
    LET connection == [connectionId |-> id, userId |-> userId, connectedAt |-> t,
                       lastActivity |-> t, lastHeartbeat |-> t, roomId |-> roomId,
                       controller |-> controller]
        had == userId \in DOMAIN uconns
        userConns == (IF had THEN uconns[userId] ELSE {}) \cup {id}
    IN  [connections |-> MapSet(conns, id, connection),
         userConnections |-> MapSet(uconns, userId, userConns),
         connectionId |-> id,
         isNewUser |-> (userConns = {})]

\* addConnection(userId, roomId, controller): the two maps after the call
\* and the returned { connectionId, isNewUser }.
AddConnection(conns, uconns, userId, roomId, controller, id, t) ==
    LET connection == [connectionId |-> id, userId |-> userId, connectedAt |-> t,
                       lastActivity |-> t, lastHeartbeat |-> t, roomId |-> roomId,
                       controller |-> controller]
        had == userId \in DOMAIN uconns
        isNewUser == ~had \/ uconns[userId] = {}
        userConns == IF had THEN uconns[userId] ELSE {}
    IN  [connections |-> MapSet(conns, id, connection),
         userConnections |-> MapSet(uconns, userId, userConns \cup {id}),
         connectionId |-> id,
         isNewUser |-> isNewUser]

\* removeConnection, mutated: the emptied set stays in the user map.
RemoveConnectionKeepEmpty(conns, uconns, connectionId) ==
    IF connectionId \notin DOMAIN conns
    THEN [connections |-> conns, userConnections |-> uconns,
          removed |-> FALSE, isLastConnection |-> FALSE, userId |-> "null"]
    ELSE LET userId == conns[connectionId].userId
             had == userId \in DOMAIN uconns
             left == IF had THEN uconns[userId] \ {connectionId} ELSE {}
         IN  [connections |-> MapDelete(conns, connectionId),
              userConnections |-> IF had THEN MapSet(uconns, userId, left) ELSE uconns,
              removed |-> TRUE,
              isLastConnection |-> (~had \/ left = {}),
              userId |-> userId]

\* removeConnection, mutated: no early return for an id that is not in the
\* table, so the user lookup finds nothing and the call reports a removal.
RemoveConnectionNoGuard(conns, uconns, connectionId) ==
    IF connectionId \notin DOMAIN conns
    THEN [connections |-> conns, userConnections |-> uconns,
          removed |-> TRUE, isLastConnection |-> TRUE, userId |-> "null"]
    ELSE LET userId == conns[connectionId].userId
             had == userId \in DOMAIN uconns
             left == IF had THEN uconns[userId] \ {connectionId} ELSE {}
         IN  [connections |-> MapDelete(conns, connectionId),
              userConnections |->
                  IF ~had THEN uconns
                  ELSE IF left = {} THEN MapDelete(uconns, userId)
                  ELSE MapSet(uconns, userId, left),
              removed |-> TRUE,
              isLastConnection |-> (~had \/ left = {}),
              userId |-> userId]

\* removeConnection, mutated: isLastConnection is read before the id leaves
\* the user's set.
RemoveConnectionReadsBeforeDelete(conns, uconns, connectionId) ==
    IF connectionId \notin DOMAIN conns
    THEN [connections |-> conns, userConnections |-> uconns,
          removed |-> FALSE, isLastConnection |-> FALSE, userId |-> "null"]
    ELSE LET userId == conns[connectionId].userId
             had == userId \in DOMAIN uconns
             left == IF had THEN uconns[userId] \ {connectionId} ELSE {}
         IN  [connections |-> MapDelete(conns, connectionId),
              userConnections |->
                  IF ~had THEN uconns
                  ELSE IF left = {} THEN MapDelete(uconns, userId)
                  ELSE MapSet(uconns, userId, left),
              removed |-> TRUE,
              isLastConnection |-> (~had \/ uconns[userId] = {}),
              userId |-> userId]

\* removeConnection(connectionId): the two maps after the call and the
\* returned { removed, isLastConnection, userId }.
RemoveConnection(conns, uconns, connectionId) ==
    IF connectionId \notin DOMAIN conns
    THEN [connections |-> conns, userConnections |-> uconns,
          removed |-> FALSE, isLastConnection |-> FALSE, userId |-> "null"]
    ELSE LET userId == conns[connectionId].userId
             had == userId \in DOMAIN uconns
             left == IF had THEN uconns[userId] \ {connectionId} ELSE {}
         IN  [connections |-> MapDelete(conns, connectionId),
              userConnections |->
                  IF ~had THEN uconns
                  ELSE IF left = {} THEN MapDelete(uconns, userId)
                  ELSE MapSet(uconns, userId, left),
              removed |-> TRUE,
              isLastConnection |-> (~had \/ left = {}),
              userId |-> userId]

\* the live connections of a user, read from the connection table
ConnectionsOf(conns, userId) == {id \in DOMAIN conns : conns[id].userId = userId}

\* one call of removeConnection as the history keeps it: the caller, the id,
\* the returned { removed, isLastConnection, userId }, and whether the id was
\* its user's only live connection when the call was made
Report(by, conns, connectionId, r) ==
    [by |-> by, connectionId |-> connectionId, removed |-> r.removed,
     isLastConnection |-> r.isLastConnection, userId |-> r.userId,
     alone |-> /\ connectionId \in DOMAIN conns
               /\ ConnectionsOf(conns, conns[connectionId].userId) = {connectionId}]

\* acknowledgeHeartbeat, mutated: lastActivity is not refreshed.
AcknowledgeHeartbeatKeepsActivity(conns, connectionId, t) ==
    IF connectionId \in DOMAIN conns
    THEN [connections |-> [conns EXCEPT ![connectionId].lastHeartbeat = t],
          result |-> TRUE]
    ELSE [connections |-> conns, result |-> FALSE]

\* acknowledgeHeartbeat(connectionId) at time t: the table after the call and
\* the returned boolean
AcknowledgeHeartbeat(conns, connectionId, t) ==
    IF connectionId \in DOMAIN conns
    THEN [connections |-> [conns EXCEPT ![connectionId].lastHeartbeat = t,
                                        ![connectionId].lastActivity = t],
          result |-> TRUE]
    ELSE [connections |-> conns, result |-> FALSE]

\* the stale sweep's test, mutated: timeSinceHeartbeat >= HEARTBEAT_TIMEOUT
StaleConnectionsInclusive(conns, t) ==
    {id \in DOMAIN conns : t - conns[id].lastHeartbeat >= HEARTBEAT_TIMEOUT}

\* the ids the stale sweep collects: now - lastHeartbeat > HEARTBEAT_TIMEOUT
StaleConnections(conns, t) ==
    {id \in DOMAIN conns : t - conns[id].lastHeartbeat > HEARTBEAT_TIMEOUT}

\* for (const connId of staleConnections) this.removeConnection(connId):
\* the Map iterates in insertion order, which is the order of the ids.
RECURSIVE RemoveAll(_, _, _, _)
RemoveAll(conns, uconns, ids, reports) ==
    IF ids = {}
    THEN [connections |-> conns, userConnections |-> uconns, reports |-> reports]
    ELSE LET id == CHOOSE x \in ids : \A y \in ids : x <= y
             r == RemoveConnection(conns, uconns, id)
         IN  RemoveAll(r.connections, r.userConnections, ids \ {id},
                       reports \cup {Report("cleanupStaleConnections", conns, id, r)})

---------------------------------------------------------------------------
(* SSEEventEmitter: the bus                                                *)

\* the broadcast channel of emit and one other channel
Channels == {"sse", "other"}
\* removeAllListeners() without a channel: the argument is falsy
NoChannel == ""
\* two listener functions of a caller (listener1 and listener2 of the tests);
\* a listener is identified by its function identity
TestListeners == {[kind |-> "fn", key |-> 1], [kind |-> "fn", key |-> 2]}

\* Set.prototype.has / delete on a Set kept as a sequence in insertion order
SeqHas(q, x) == \E i \in 1..Len(q) : q[i] = x
SeqRemove(q, x) == SelectSeq(q, LAMBDA y : y # x)

\* addListener(channel, listener): Set.add keeps one copy of a listener,
\* listenerCount++ counts every call.
AddListener(ls, count, channel, listener) ==
    LET channelListeners == IF channel \in DOMAIN ls THEN ls[channel] ELSE <<>>
    IN  [listeners |-> MapSet(ls, channel,
                              IF SeqHas(channelListeners, listener) THEN channelListeners
                              ELSE Append(channelListeners, listener)),
         listenerCount |-> count + 1]

\* removeListener(channel, listener)
RemoveListener(ls, count, channel, listener) ==
    IF channel \in DOMAIN ls /\ SeqHas(ls[channel], listener)
    THEN LET left == SeqRemove(ls[channel], listener)
         IN  [listeners |-> IF left = <<>> THEN MapDelete(ls, channel)
                            ELSE MapSet(ls, channel, left),
              listenerCount |-> count - 1,
              removed |-> TRUE]
    ELSE [listeners |-> ls, listenerCount |-> count, removed |-> FALSE]

\* removeAllListeners(channel?)
RemoveAllListeners(ls, count, channel) ==
    IF channel # NoChannel
    THEN IF channel \in DOMAIN ls
         THEN [listeners |-> MapDelete(ls, channel),
               listenerCount |-> count - Len(ls[channel])]
         ELSE [listeners |-> ls, listenerCount |-> count]
    ELSE [listeners |-> <<>>, listenerCount |-> 0]

\* getListenerCount(channel?)
GetListenerCount(ls, count, channel) ==
    IF channel # NoChannel
    THEN IF channel \in DOMAIN ls THEN Len(ls[channel]) ELSE 0
    ELSE count

---------------------------------------------------------------------------
(* What a listener does when the bus calls it.  A listener changes the     *)
(* state of several modules, so the calls work on a record w of the parts  *)
(* of the state a listener can touch: listeners, listenerCount, calls,     *)
(* queues, enqueued, streams, nextId; the handlers that emit work on the   *)
(* same record, which also holds the registry, the history of the bus and  *)
(* the presence store.                                                     *)

\* a periodic task as setInterval's table holds it: the variable that keeps
\* its handle and, for the keep-alive of a stream, the stream
Interval(name) == [name |-> name, stream |-> 0]
KeepAliveInterval(s) == [name |-> "keepAliveInterval", stream |-> s]

\* the intervals set when the modules are imported: the catch-up log's
\* cleanup, the three of the endpoint's module, and the manager's two
StartedIntervals ==
    {Interval("MessageQueue.cleanupInterval"),
     Interval("timeoutInterval"), Interval("buddyListInterval"),
     Interval("connectionCleanupInterval"),
     Interval("heartbeatInterval"), Interval("cleanupInterval")}

World ==
    [listeners |-> listeners, listenerCount |-> listenerCount, calls |-> calls,
     queues |-> queues, enqueued |-> enqueued, streams |-> streams, nextId |-> nextId,
     connections |-> connections, userConnections |-> userConnections,
     removals |-> removals, published |-> published, presence |-> presence,
     intervals |-> intervals]

\* the step leaves the state as w says
Commit(w) ==
    /\ listeners' = w.listeners
    /\ listenerCount' = w.listenerCount
    /\ calls' = w.calls
    /\ queues' = w.queues
    /\ enqueued' = w.enqueued
    /\ streams' = w.streams
    /\ nextId' = w.nextId
    /\ connections' = w.connections
    /\ userConnections' = w.userConnections
    /\ removals' = w.removals
    /\ published' = w.published
    /\ presence' = w.presence
    /\ intervals' = w.intervals

\* messageQueue.enqueue(roomId, event, data) on w
WEnqueue(w, roomId, event, data) ==
    [w EXCEPT !.queues = Enqueue(@, maxSize, roomId, event, data, w.nextId, now),
              !.enqueued = Remember(@, roomId, event, data, w.nextId, now),
              !.nextId = @ + 1]

\* formatSSEEvent(event, eventId): the id, event, data and retry lines of a
\* frame.  via tells which statement wrote the frame; it is not on the wire.
FormatSSEEvent(type, data, eventId, via) ==
    [id |-> eventId, event |-> type, data |-> data, retry |-> RETRY_INTERVAL, via |-> via]

\* onSSE of stream s, the listener GET registers: a fresh id for the frame,
\* the write to the sink (controller.enqueue throws on a closed stream, the
\* catch logs it), and a second entry in the catch-up log of the stream's
\* room unless the event is a heartbeat.
OnSSE(w, s, event) ==
    LET w1 == [w EXCEPT !.nextId = @ + 1]
    IN  IF w.streams[s].closed THEN w1
        ELSE LET w2 == [w1 EXCEPT !.streams[s].sink =
                            Append(@, FormatSSEEvent(event.type, event.data, w.nextId, "live"))]
             IN  IF event.type # "heartbeat"
                 THEN WEnqueue(w2, DEFAULT_CHAT_ROOM_ID, event.type, event.data)
                 ELSE w2

\* listener(event): a function of a caller throws when it is one of throwers;
\* onSSE catches everything itself.
Invoke(w, listener, event, throwers) ==
    LET threw == listener.kind = "fn" /\ listener \in throwers
        w1 == [w EXCEPT !.calls = Append(@, [listener |-> listener, event |-> event,
                                             threw |-> threw])]
    IN  [w |-> IF listener.kind = "onSSE" THEN OnSSE(w1, listener.key, event) ELSE w1,
         threw |-> threw]

\* the loop of emit without its try/catch: the first throw leaves the loop
RECURSIVE EmitLoopNoCatch(_, _, _, _)
EmitLoopNoCatch(w, snapshot, event, throwers) ==
    IF snapshot = <<>> THEN [w |-> w, threw |-> FALSE]
    ELSE LET r == Invoke(w, Head(snapshot), event, throwers)
         IN  IF r.threw THEN [w |-> r.w, threw |-> TRUE]
             ELSE EmitLoopNoCatch(r.w, Tail(snapshot), event, throwers)

\* for (const listener of [...eventListeners]) try { listener(event) }
\* catch { this.removeListener('sse', listener) }
RECURSIVE EmitLoop(_, _, _, _)
EmitLoop(w, snapshot, event, throwers) ==
    IF snapshot = <<>> THEN [w |-> w, threw |-> FALSE]
    ELSE LET listener == Head(snapshot)
             r == Invoke(w, listener, event, throwers)
             rm == RemoveListener(r.w.listeners, r.w.listenerCount, "sse", listener)
             w1 == IF r.threw
                   THEN [r.w EXCEPT !.listeners = rm.listeners,
                                    !.listenerCount = rm.listenerCount]
                   ELSE r.w
         IN  EmitLoop(w1, Tail(snapshot), event, throwers)

\* emit, mutated: no try/catch around the listener.
EmitNoCatch(w, type, data, id, throwers) ==
    LET event == [type |-> type, data |-> data, id |-> id]
    IN  IF "sse" \in DOMAIN w.listeners /\ Len(w.listeners["sse"]) > 0
        THEN EmitLoopNoCatch(w, w.listeners["sse"], event, throwers)
        ELSE [w |-> w, threw |-> FALSE]

\* emit, mutated: iterates the listeners newest first.
EmitNewestFirst(w, type, data, id, throwers) ==
    LET event == [type |-> type, data |-> data, id |-> id]
        ls == w.listeners["sse"]
    IN  IF "sse" \in DOMAIN w.listeners /\ Len(w.listeners["sse"]) > 0
        THEN EmitLoop(w, [i \in 1..Len(ls) |-> ls[Len(ls) + 1 - i]], event, throwers)
        ELSE [w |-> w, threw |-> FALSE]

\* emit(type, data, id?): the state after the call, and whether the call
\* threw.  throwers are the caller's functions that throw in this call.
Emit(w, type, data, id, throwers) ==
    LET event == [type |-> type, data |-> data, id |-> id]
    IN  IF "sse" \in DOMAIN w.listeners /\ Len(w.listeners["sse"]) > 0
        THEN EmitLoop(w, w.listeners["sse"], event, throwers)
        ELSE [w |-> w, threw |-> FALSE]

---------------------------------------------------------------------------
(* The state of SSEClient after construction.                              *)

\* eventSource === null
NoSource == [readyState |-> "null", lastEventId |-> NullId, requested |-> FALSE]
\* heartbeatTimer === null
NoTimer == -1
\* reconnectTimer === null
NoReconnectTimer == [handle |-> FALSE, pending |-> FALSE, due |-> 0, exponentialDelay |-> 0]
\* _error === null
NoError == ""
\* what the two timer fields do not tell of the timeouts the client has set:
\* the transport each field's timeout was set under, and the timeouts that
\* are pending though no field refers to them any more
NoTimeouts == [heartbeatFor |-> 0, reconnectFor |-> 0, orphans |-> {}]
\* the handlers for chatMessage, userStatusUpdate and buddyListUpdate differ
\* in the type they pass on only
EventTypes == {"chatMessage", "heartbeat"}

\* the client after construction
ClientInit ==
    /\ _status = "disconnected"
    /\ _lastEventId = NullId
    /\ _error = NoError
    /\ _reconnectAttempts = 0
    /\ _connectionId = NullId
    /\ eventSource = NoSource
    /\ heartbeatTimer = NoTimer
    /\ reconnectTimer = NoReconnectTimer
    /\ requests = <<>>
    /\ acks = <<>>
    /\ transports = <<>>
    /\ timeouts = NoTimeouts

---------------------------------------------------------------------------
(* Operations of the registry as steps.                                    *)

RegAdd(userId, roomId) ==
    /\ nextId <= MaxConns
    /\ LET r == AddConnection(connections, userConnections, userId, roomId,
                              "controller", nextId, now)
       IN  /\ connections' = r.connections
           /\ userConnections' = r.userConnections
           /\ ret' = [op |-> "addConnection", userId |-> userId,
                      connectionId |-> r.connectionId, isNewUser |-> r.isNewUser]
    /\ nextId' = nextId + 1
    /\ UNCHANGED <<clientVars, removals, queueVars, busVars, httpVars, timeVars>>

RegRemove(connectionId) ==
    /\ LET r == RemoveConnection(connections, userConnections, connectionId)
       IN  /\ connections' = r.connections
           /\ userConnections' = r.userConnections
           /\ removals' = removals \cup
                  {Report("removeConnection", connections, connectionId, r)}
           /\ ret' = [op |-> "removeConnection", connectionId |-> connectionId,
                      removed |-> r.removed, isLastConnection |-> r.isLastConnection,
                      userId |-> r.userId]
    /\ UNCHANGED <<clientVars, queueVars, busVars, httpVars, timeVars, nextId>>

\* acknowledgeHeartbeat(connectionId)
RegAcknowledgeHeartbeat(connectionId) ==
    /\ LET r == AcknowledgeHeartbeat(connections, connectionId, now)
       IN  /\ connections' = r.connections
           /\ ret' = [op |-> "acknowledgeHeartbeat", connectionId |-> connectionId,
                      result |-> r.result]
    /\ UNCHANGED <<clientVars, userConnections, removals, queueVars, busVars, httpVars,
                   timeVars, nextId>>

\* cleanupStaleConnections(), run by the interval of startBackgroundTasks
RegSweep ==
    /\ Interval("cleanupInterval") \in intervals
    /\ now = sweepDue
    /\ sweepDue' = sweepDue + STALE_CHECK_INTERVAL
    /\ LET stale == StaleConnections(connections, now)
           r == RemoveAll(connections, userConnections, stale, removals)
       IN  /\ connections' = r.connections
           /\ userConnections' = r.userConnections
           /\ removals' = r.reports
           /\ ret' = [op |-> "cleanupStaleConnections", at |-> now, evicted |-> stale]
    /\ UNCHANGED <<clientVars, queueVars, busVars, httpVars, now, nextId>>

\* the clock: time does not pass a timer that is due
Tick ==
    /\ now < MaxTicks * TickMs
    /\ now < sweepDue
    /\ now' = now + TickMs
    /\ ret' = [op |-> "tick"]
    /\ UNCHANGED <<clientVars, regVars, queueVars, busVars, httpVars, sweepDue, nextId>>

\* the ids a caller may hand in: every id allocated so far, and a foreign one
KnownIds == (1..(nextId - 1)) \cup {UnknownId}

InitRegistry ==
    /\ connections = <<>>
    /\ userConnections = <<>>
    /\ queues = <<>>
    /\ maxSize = MESSAGE_QUEUE_MAX_SIZE
    /\ enqueued = <<>>
    /\ listeners = <<>>
    /\ listenerCount = 0
    /\ calls = <<>>
    /\ streams = <<>>
    /\ published = <<>>
    /\ presence = [u \in Users |-> "offline"]
    /\ intervals = StartedIntervals
    /\ now = 0
    /\ sweepDue = STALE_CHECK_INTERVAL
    /\ nextId = 1
    /\ ClientInit
    /\ removals = {}
    /\ ret = [op |-> "init"]

NextRegistry ==
    \/ \E u \in Users : RegAdd(u, DEFAULT_CHAT_ROOM_ID)
    \/ \E id \in KnownIds : RegRemove(id)
    \/ \E id \in KnownIds : RegAcknowledgeHeartbeat(id)
    \/ RegSweep
    \/ Tick

SpecRegistry == InitRegistry /\ [][NextRegistry]_vars

---------------------------------------------------------------------------
(* POST /api/sse/heartbeat                                                 *)

\* locals.user of a request without a session
NoUser == "null"

\* POST, mutated: no comparison of connection.userId with the caller.
HeartbeatPOSTNoOwnerCheck(conns, user, connectionId, t) ==
    IF user = NoUser
    THEN [connections |-> conns, status |-> 401, success |-> FALSE]
    ELSE IF connectionId = NullId
    THEN [connections |-> conns, status |-> 400, success |-> FALSE]
    ELSE IF connectionId \notin DOMAIN conns
    THEN [connections |-> conns, status |-> 404, success |-> FALSE]
    ELSE LET r == AcknowledgeHeartbeat(conns, connectionId, t)
         IN  IF r.result
             THEN [connections |-> r.connections, status |-> 200, success |-> TRUE]
             ELSE [connections |-> r.connections, status |-> 500, success |-> FALSE]

\* POST({ request, locals }) with body { connectionId } at time t: the
\* table after the call, the status of the response and its success field.
\* A body without a usable connectionId carries NullId here.
HeartbeatPOST(conns, user, connectionId, t) ==
    IF user = NoUser
    THEN [connections |-> conns, status |-> 401, success |-> FALSE]
    ELSE IF connectionId = NullId
    THEN [connections |-> conns, status |-> 400, success |-> FALSE]
    ELSE IF connectionId \notin DOMAIN conns
    THEN [connections |-> conns, status |-> 404, success |-> FALSE]
    ELSE IF conns[connectionId].userId # user
    THEN [connections |-> conns, status |-> 403, success |-> FALSE]
    ELSE LET r == AcknowledgeHeartbeat(conns, connectionId, t)
         IN  IF r.result
             THEN [connections |-> r.connections, status |-> 200, success |-> TRUE]
             ELSE [connections |-> r.connections, status |-> 500, success |-> FALSE]

\* a request to the endpoint
SrvHeartbeatPOST(user, connectionId) ==
    /\ LET r == HeartbeatPOST(connections, user, connectionId, now)
       IN  /\ connections' = r.connections
           /\ ret' = [op |-> "POST heartbeat", user |-> user,
                      connectionId |-> connectionId,
                      status |-> r.status, success |-> r.success]
    /\ UNCHANGED <<clientVars, userConnections, removals, queueVars, busVars, httpVars,
                   timeVars, nextId>>

\* connections acknowledged through the endpoint by their user, by another
\* or by nobody, while the clock runs and the stale sweep fires
InitHeartbeat == InitRegistry

NextHeartbeat ==
    \/ /\ nextId <= MaxHeartbeatConns
       /\ \E u \in Users : RegAdd(u, DEFAULT_CHAT_ROOM_ID)
    \/ \E u \in Users \cup {NoUser}, id \in DOMAIN connections \cup {UnknownId, NullId} :
          SrvHeartbeatPOST(u, id)
    \/ RegSweep
    \/ Tick

SpecHeartbeat == InitHeartbeat /\ [][NextHeartbeat]_vars

---------------------------------------------------------------------------
(* Operations of the catch-up log as steps.                                *)

\* enqueue(roomId, event, data), at most limit ids into the run
QEnqueue(limit, roomId, event, data) ==
    /\ nextId <= limit
    /\ queues' = Enqueue(queues, maxSize, roomId, event, data, nextId, now)
    /\ enqueued' = Remember(enqueued, roomId, event, data, nextId, now)
    /\ ret' = [op |-> "enqueue", roomId |-> roomId, result |-> nextId]
    /\ nextId' = nextId + 1
    /\ UNCHANGED <<clientVars, regVars, maxSize, busVars, httpVars, timeVars>>

\* getMessagesSince(roomId, lastEventId)
QGetMessagesSince(roomId, lastEventId) ==
    /\ ret' = [op |-> "getMessagesSince", roomId |-> roomId,
               lastEventId |-> lastEventId,
               result |-> GetMessagesSince(queues, roomId, lastEventId)]
    /\ UNCHANGED <<clientVars, regVars, queueVars, busVars, httpVars, timeVars, nextId>>

\* getLatestEventId(roomId)
QGetLatestEventId(roomId) ==
    /\ ret' = [op |-> "getLatestEventId", roomId |-> roomId,
               result |-> GetLatestEventId(queues, roomId)]
    /\ UNCHANGED <<clientVars, regVars, queueVars, busVars, httpVars, timeVars, nextId>>

\* new MessageQueue(ttl, maxSize) with a small maxSize (the tests use 10)
InitQueue ==
    /\ connections = <<>>
    /\ userConnections = <<>>
    /\ queues = <<>>
    /\ maxSize \in 1..MaxQueueSize
    /\ enqueued = <<>>
    /\ listeners = <<>>
    /\ listenerCount = 0
    /\ calls = <<>>
    /\ streams = <<>>
    /\ published = <<>>
    /\ presence = [u \in Users |-> "offline"]
    /\ intervals = StartedIntervals
    /\ now = 0
    /\ sweepDue = STALE_CHECK_INTERVAL
    /\ nextId = 1
    /\ ClientInit
    /\ removals = {}
    /\ ret = [op |-> "init"]

NextQueue ==
    \/ \E r \in Rooms, d \in Payloads : QEnqueue(MaxEnqueues, r, "chatMessage", d)
    \/ \E r \in Rooms, id \in KnownIds \cup {NullId} : QGetMessagesSince(r, id)
    \/ \E r \in Rooms : QGetLatestEventId(r)

SpecQueue == InitQueue /\ [][NextQueue]_vars

\* cleanup(), called by the log's interval or directly
QCleanup ==
    /\ LET r == QueueCleanup(queues, MESSAGE_QUEUE_TTL, now)
       IN  /\ queues' = r.queues
           /\ ret' = [op |-> "cleanup", at |-> now, result |-> r.result]
    /\ UNCHANGED <<clientVars, regVars, maxSize, enqueued, busVars, httpVars, timeVars,
                   nextId>>

\* the clock of the runs of the cleanup: half a TTL passes
QTick ==
    /\ now < MaxTTLTicks * TTLTickMs
    /\ now' = now + TTLTickMs
    /\ ret' = [op |-> "tick"]
    /\ UNCHANGED <<clientVars, regVars, queueVars, busVars, httpVars, sweepDue, nextId>>

\* messages are enqueued in two rooms while the clock runs and cleanup() is
\* called
InitCleanup == InitQueue

NextCleanup ==
    \/ \E r \in Rooms : QEnqueue(MaxEnqueues, r, "chatMessage", 1)
    \/ QCleanup
    \/ QTick

SpecCleanup == InitCleanup /\ [][NextCleanup]_vars

\* A log that is longer than the recent-tail cap: one room, one payload, and
\* a maxSize above the cap; the run enqueues until the log has been trimmed.
InitTail ==
    /\ connections = <<>>
    /\ userConnections = <<>>
    /\ queues = <<>>
    /\ maxSize = RecentTail + TailMargin
    /\ enqueued = <<>>
    /\ listeners = <<>>
    /\ listenerCount = 0
    /\ calls = <<>>
    /\ streams = <<>>
    /\ published = <<>>
    /\ presence = [u \in Users |-> "offline"]
    /\ intervals = StartedIntervals
    /\ now = 0
    /\ sweepDue = STALE_CHECK_INTERVAL
    /\ nextId = 1
    /\ ClientInit
    /\ removals = {}
    /\ ret = [op |-> "init"]

NextTail ==
    \/ QEnqueue(maxSize + 1, DEFAULT_CHAT_ROOM_ID, "chatMessage", 1)
    \/ \E r \in Rooms, id \in KnownIds \cup {NullId} : QGetMessagesSince(r, id)

SpecTail == InitTail /\ [][NextTail]_vars

---------------------------------------------------------------------------
(* Operations of the bus as steps.                                         *)

EmAddListener(channel, listener) ==
    /\ listenerCount < MaxListenerCount
    /\ LET r == AddListener(listeners, listenerCount, channel, listener)
       IN  /\ listeners' = r.listeners
           /\ listenerCount' = r.listenerCount
    /\ ret' = [op |-> "addListener", channel |-> channel, listener |-> listener]
    /\ UNCHANGED <<clientVars, regVars, queueVars, calls, httpVars, timeVars, nextId>>

EmRemoveListener(channel, listener) ==
    /\ LET r == RemoveListener(listeners, listenerCount, channel, listener)
       IN  /\ listeners' = r.listeners
           /\ listenerCount' = r.listenerCount
           /\ ret' = [op |-> "removeListener", channel |-> channel,
                      listener |-> listener, result |-> r.removed]
    /\ UNCHANGED <<clientVars, regVars, queueVars, calls, httpVars, timeVars, nextId>>

EmRemoveAllListeners(channel) ==
    /\ LET r == RemoveAllListeners(listeners, listenerCount, channel)
       IN  /\ listeners' = r.listeners
           /\ listenerCount' = r.listenerCount
    /\ ret' = [op |-> "removeAllListeners", channel |-> channel]
    /\ UNCHANGED <<clientVars, regVars, queueVars, calls, httpVars, timeVars, nextId>>

\* emit(type, data, id) with a fresh id; the functions in throwers throw
EmEmit(type, data, throwers) ==
    /\ nextId <= MaxEmits
    /\ LET r == Emit([World EXCEPT !.nextId = nextId + 1], type, data, nextId, throwers)
       IN  /\ Commit(r.w)
           /\ ret' = [op |-> "emit", event |-> [type |-> type, data |-> data, id |-> nextId],
                      throwers |-> throwers, threw |-> r.threw]
    /\ UNCHANGED <<clientVars, maxSize, timeVars>>

InitEmitter == InitRegistry

NextEmitter ==
    \/ \E c \in Channels, l \in TestListeners : EmAddListener(c, l)
    \/ \E c \in Channels, l \in TestListeners : EmRemoveListener(c, l)
    \/ \E c \in Channels \cup {NoChannel} : EmRemoveAllListeners(c)
    \/ \E t \in SUBSET TestListeners : EmEmit("buddyListUpdate", 1, t)

SpecEmitter == InitEmitter /\ [][NextEmitter]_vars

---------------------------------------------------------------------------
(* SSEManager.broadcast and the handlers of GET /api/sse                   *)

\* broadcast(type, data) without a roomId: the argument is falsy
NoRoom == ""

\* how many of the events given to the bus came from broadcast
NumBroadcasts(pub) == Len(SelectSeq(pub, LAMBDA e : e.source = "broadcast"))

\* sseEmitter.emit(type, data, id) called by a handler; the history notes
\* the event, the room it was published for and where it came from
WEmit(w, source, type, data, roomId, id) ==
    Emit([w EXCEPT !.published = Append(@, [source |-> source, type |-> type,
                                            data |-> data, roomId |-> roomId, id |-> id])],
         type, data, id, {}).w

\* broadcast, mutated: the event goes to the bus only.
BroadcastEmitOnly(w, type, data, roomId) ==
    WEmit([w EXCEPT !.nextId = @ + 1], "broadcast", type, data, roomId, w.nextId)

\* broadcast, mutated: the emit first, the enqueue for the room after it.
BroadcastEmitFirst(w, type, data, roomId) ==
    LET w1 == WEmit([w EXCEPT !.nextId = @ + 1], "broadcast", type, data, roomId, w.nextId)
    IN  IF roomId # NoRoom THEN WEnqueue(w1, roomId, type, data) ELSE w1

\* broadcast(type, data, roomId?): a fresh eventId, the enqueue for the room
\* if one is given, then the emit with the eventId
Broadcast(w, type, data, roomId) ==
    LET w1 == [w EXCEPT !.nextId = @ + 1]
        w2 == IF roomId # NoRoom THEN WEnqueue(w1, roomId, type, data) ELSE w1
    IN  WEmit(w2, "broadcast", type, data, roomId, w.nextId)

\* the listener a stream registers
OnSSEOf(s) == [kind |-> "onSSE", key |-> s]

\* start(controller) from the initial connection event on: the connect
\* frame, the catch-up frames if the request carried a Last-Event-ID, then
\* the listener on the bus.  replayedAt notes how many broadcasts had been
\* published when the catch-up was read.
StartRest(w, s) ==
    LET st == w.streams[s]
        connectFrame ==
            FormatSSEEvent("userStatusUpdate",
                           [userId |-> st.userId, status |-> "connected", lastSeen |-> now],
                           w.nextId, "connect")
        missedMessages ==
            IF st.lastEventId # NullId
            THEN GetMessagesSince(w.queues, DEFAULT_CHAT_ROOM_ID, st.lastEventId)
            ELSE <<>>
        replay == [i \in 1..Len(missedMessages) |->
                     FormatSSEEvent(missedMessages[i].event, missedMessages[i].data,
                                    missedMessages[i].id, "replay")]
        added == AddListener(w.listeners, w.listenerCount, "sse", OnSSEOf(s))
    IN  [w EXCEPT !.nextId = @ + 1,
                  !.streams[s].sink = (@ \o <<connectFrame>>) \o replay,
                  !.streams[s].replayedAt = NumBroadcasts(w.published),
                  !.streams[s].pc = "open",
                  !.listeners = added.listeners,
                  !.listenerCount = added.listenerCount,
                  !.intervals = @ \cup {KeepAliveInterval(s)}]

\* GET, mutated: the listener is on the bus before the await of start.
SrvStartListensEarly(limit, userId, lastEventId) ==
    /\ Cardinality(DOMAIN streams) < limit
    /\ LET s == Cardinality(DOMAIN streams) + 1
           a == AddConnection(connections, userConnections, userId,
                              DEFAULT_CHAT_ROOM_ID, s, nextId, now)
           added == AddListener(listeners, listenerCount, "sse", OnSSEOf(s))
           w == [World EXCEPT
                   !.nextId = @ + 1,
                   !.connections = a.connections,
                   !.userConnections = a.userConnections,
                   !.listeners = added.listeners,
                   !.listenerCount = added.listenerCount,
                   !.streams = MapSet(@, s, [userId |-> userId,
                                             lastEventId |-> lastEventId,
                                             connectionId |-> a.connectionId,
                                             pc |-> "awaitOnline", closed |-> FALSE,
                                             sink |-> <<>>, replayedAt |-> 0])]
       IN  /\ Commit(IF a.isNewUser THEN w ELSE StartRest(w, s))
           /\ ret' = [op |-> "GET", userId |-> userId, status |-> 200, stream |-> s,
                      isNewUser |-> a.isNewUser]
    /\ UNCHANGED <<clientVars, maxSize, timeVars>>

\* GET with an authenticated user, up to the first await of start: the
\* connection is added; a user with no other connection waits for the
\* presence store, any other continues at once.
SrvStart(limit, userId, lastEventId) ==
    /\ Cardinality(DOMAIN streams) < limit
    /\ LET s == Cardinality(DOMAIN streams) + 1
           a == AddConnection(connections, userConnections, userId,
                              DEFAULT_CHAT_ROOM_ID, s, nextId, now)
           w == [World EXCEPT
                   !.nextId = @ + 1,
                   !.connections = a.connections,
                   !.userConnections = a.userConnections,
                   !.streams = MapSet(@, s, [userId |-> userId,
                                             lastEventId |-> lastEventId,
                                             connectionId |-> a.connectionId,
                                             pc |-> "awaitOnline", closed |-> FALSE,
                                             sink |-> <<>>, replayedAt |-> 0])]
       IN  /\ Commit(IF a.isNewUser THEN w ELSE StartRest(w, s))
           /\ ret' = [op |-> "GET", userId |-> userId, status |-> 200, stream |-> s,
                      isNewUser |-> a.isNewUser]
    /\ UNCHANGED <<clientVars, maxSize, timeVars>>

\* start after the await: the presence update succeeded (status online, the
\* update is emitted) or threw (logged); then the rest of start
SrvStartResume(s, dbOk) ==
    /\ streams[s].pc = "awaitOnline"
    /\ LET userId == streams[s].userId
           w == IF dbOk
                THEN WEmit([World EXCEPT !.presence[userId] = "online"], "presence",
                           "userStatusUpdate",
                           [userId |-> userId, status |-> "online", lastSeen |-> now],
                           NoRoom, NullId)
                ELSE World
       IN  Commit(StartRest(w, s))
    /\ ret' = [op |-> "GET.start", stream |-> s]
    /\ UNCHANGED <<clientVars, maxSize, timeVars>>

\* GET, mutated: no test of locals.user.
SrvGETAdmitsAnyone(limit, user, lastEventId) == SrvStart(limit, user, lastEventId)

\* GET({ request, locals }): without a user the answer is 401 and no stream
\* is built; with one, the stream is built and its start runs
SrvGET(limit, user, lastEventId) ==
    IF user = NoUser
    THEN /\ ret' = [op |-> "GET", userId |-> NoUser, status |-> 401, stream |-> 0,
                    isNewUser |-> FALSE]
         /\ UNCHANGED <<clientVars, regVars, queueVars, busVars, httpVars, timeVars,
                        nextId>>
    ELSE SrvStart(limit, user, lastEventId)

\* cancel(reason) up to its await: the listener leaves the bus, the
\* connection leaves the registry
SrvCancel(s) ==
    /\ streams[s].pc = "open"
    /\ LET rl == RemoveListener(listeners, listenerCount, "sse", OnSSEOf(s))
           rc == RemoveConnection(connections, userConnections, streams[s].connectionId)
       IN  /\ Commit([World EXCEPT
                        !.listeners = rl.listeners,
                        !.listenerCount = rl.listenerCount,
                        !.connections = rc.connections,
                        !.userConnections = rc.userConnections,
                        !.removals = removals \cup
                            {Report("GET.cancel", connections,
                                    streams[s].connectionId, rc)},
                        !.intervals = @ \ {KeepAliveInterval(s)},
                        !.streams[s].closed = TRUE,
                        !.streams[s].pc = IF rc.isLastConnection THEN "awaitOffline"
                                          ELSE "done"])
           /\ ret' = [op |-> "GET.cancel", stream |-> s,
                      isLastConnection |-> rc.isLastConnection]
    /\ UNCHANGED <<clientVars, maxSize, timeVars>>

\* cancel after the await: status offline and the update emitted, or the
\* presence update threw
SrvCancelResume(s, dbOk) ==
    /\ streams[s].pc = "awaitOffline"
    /\ LET userId == streams[s].userId
           w == IF dbOk
                THEN WEmit([World EXCEPT !.presence[userId] = "offline"], "presence",
                           "userStatusUpdate",
                           [userId |-> userId, status |-> "offline", lastSeen |-> now],
                           NoRoom, NullId)
                ELSE World
       IN  Commit([w EXCEPT !.streams[s].pc = "done"])
    /\ ret' = [op |-> "GET.cancel.resume", stream |-> s]
    /\ UNCHANGED <<clientVars, maxSize, timeVars>>

\* sseManager.broadcast('chatMessage', message, roomId?); the messages of a
\* run are numbered
SrvBroadcast(roomId) ==
    /\ NumBroadcasts(published) < MaxBroadcasts
    /\ LET data == [serial |-> NumBroadcasts(published) + 1]
       IN  /\ Commit(Broadcast(World, "chatMessage", data, roomId))
           /\ ret' = [op |-> "broadcast", type |-> "chatMessage", data |-> data,
                      roomId |-> roomId,
                      latestBefore |-> GetLatestEventId(queues, roomId)]
    /\ UNCHANGED <<clientVars, maxSize, timeVars>>

\* what a request of the user may carry as Last-Event-ID: nothing, or the id
\* of the last frame that one of the user's closed streams was sent
LastEventIds(userId) ==
    {NullId} \cup
    {streams[s].sink[Len(streams[s].sink)].id :
       s \in {x \in DOMAIN streams : /\ streams[x].userId = userId
                                      /\ streams[x].closed
                                      /\ streams[x].sink # <<>>}}

\* the singletons after import; messageQueue is built with the configured
\* size.  The presence store answers every update in NextServer.
InitServer ==
    /\ connections = <<>>
    /\ userConnections = <<>>
    /\ queues = <<>>
    /\ maxSize = MESSAGE_QUEUE_MAX_SIZE
    /\ enqueued = <<>>
    /\ listeners = <<>>
    /\ listenerCount = 0
    /\ calls = <<>>
    /\ streams = <<>>
    /\ published = <<>>
    /\ presence = [u \in Users |-> "offline"]
    /\ intervals = StartedIntervals
    /\ now = 0
    /\ sweepDue = STALE_CHECK_INTERVAL
    /\ nextId = 1
    /\ ClientInit
    /\ removals = {}
    /\ ret = [op |-> "init"]

NextServer ==
    \/ \E u \in Users : \E id \in LastEventIds(u) : SrvStart(MaxStreams, u, id)
    \/ \E s \in DOMAIN streams : SrvStartResume(s, TRUE)
    \/ \E s \in DOMAIN streams : SrvCancel(s)
    \/ \E s \in DOMAIN streams : SrvCancelResume(s, TRUE)
    \/ \E r \in Rooms : SrvBroadcast(r)

SpecServer == InitServer /\ [][NextServer]_vars

\* broadcast with and without a room, around the life of few streams
InitBroadcast == InitServer

NextBroadcast ==
    \/ \E u \in Users : \E id \in LastEventIds(u) : SrvStart(MaxListeningStreams, u, id)
    \/ \E s \in DOMAIN streams : SrvStartResume(s, TRUE)
    \/ \E s \in DOMAIN streams : SrvCancel(s)
    \/ \E s \in DOMAIN streams : SrvCancelResume(s, TRUE)
    \/ \E r \in Rooms \cup {NoRoom} : SrvBroadcast(r)

SpecBroadcast == InitBroadcast /\ [][NextBroadcast]_vars

\* the stale sweep against the streams: streams open and are cancelled while
\* the clock runs, heartbeats are acknowledged and the sweep's interval fires
InitStale == InitServer

NextStale ==
    \/ \E u \in Users : SrvStart(MaxStaleStreams, u, NullId)
    \/ \E s \in DOMAIN streams : SrvStartResume(s, TRUE)
    \/ \E s \in DOMAIN streams : SrvCancel(s)
    \/ \E s \in DOMAIN streams : SrvCancelResume(s, TRUE)
    \/ \E id \in DOMAIN connections : RegAcknowledgeHeartbeat(id)
    \/ RegSweep
    \/ Tick

SpecStale == InitStale /\ [][NextStale]_vars

\* sendHeartbeats(): every connection of the table, in insertion order, is
\* written a heartbeat frame with a fresh id; the write to a closed stream
\* throws and is caught
RECURSIVE SendHeartbeatsLoop(_, _)
SendHeartbeatsLoop(w, ids) ==
    IF ids = {} THEN w
    ELSE LET connectionId == CHOOSE i \in ids : \A j \in ids : i <= j
             s == w.connections[connectionId].controller
             payload == FormatSSEEvent("heartbeat",
                                       [connectionId |-> connectionId, timestamp |-> now],
                                       w.nextId, "heartbeat")
             w1 == [w EXCEPT !.nextId = @ + 1]
             w2 == IF s \in DOMAIN w.streams /\ ~w.streams[s].closed
                   THEN [w1 EXCEPT !.streams[s].sink = Append(@, payload)]
                   ELSE w1
         IN  SendHeartbeatsLoop(w2, ids \ {connectionId})

SendHeartbeats(w) == SendHeartbeatsLoop(w, DOMAIN w.connections)

\* how many heartbeat frames the manager has written to the sinks
HeartbeatsWritten ==
    LET RECURSIVE Sum(_)
        Sum(S) == IF S = {} THEN 0
                  ELSE LET s == CHOOSE x \in S : TRUE
                       IN  Len(SelectSeq(streams[s].sink,
                                         LAMBDA f : f.via = "heartbeat")) + Sum(S \ {s})
    IN  Sum(DOMAIN streams)

\* the manager's heartbeat interval fires
SrvSendHeartbeats ==
    /\ Interval("heartbeatInterval") \in intervals
    /\ DOMAIN connections # {}
    /\ HeartbeatsWritten < MaxHeartbeatFrames
    /\ Commit(SendHeartbeats(World))
    /\ ret' = [op |-> "sendHeartbeats"]
    /\ UNCHANGED <<clientVars, maxSize, timeVars>>

\* what a request may carry as Last-Event-ID: the header is the client's to
\* set, to nothing or to any id drawn so far, in the log or not
RequestIds == {NullId} \cup 1..(nextId - 1)

\* the streams of one user who reconnects with a Last-Event-ID while
\* messages are broadcast to the room and the manager sends heartbeats
InitReplay == InitServer

NextReplay ==
    \/ \E id \in RequestIds : SrvStart(MaxReplayStreams, ReplayUser, id)
    \/ \E s \in DOMAIN streams : SrvStartResume(s, TRUE)
    \/ \E s \in DOMAIN streams : SrvCancel(s)
    \/ \E s \in DOMAIN streams : SrvCancelResume(s, TRUE)
    \/ SrvBroadcast(DEFAULT_CHAT_ROOM_ID)
    \/ SrvSendHeartbeats

SpecReplay == InitReplay /\ [][NextReplay]_vars

\* requests with and without a user, around the life of the streams and
\* the broadcasts to the room
InitAdmission == InitServer

NextAdmission ==
    \/ \E u \in Users \cup {NoUser} : \E id \in {NullId} \cup LastEventIds(u) :
          SrvGET(MaxAdmittedStreams, u, id)
    \/ \E s \in DOMAIN streams : SrvStartResume(s, TRUE)
    \/ \E s \in DOMAIN streams : SrvCancel(s)
    \/ \E s \in DOMAIN streams : SrvCancelResume(s, TRUE)
    \/ SrvBroadcast(DEFAULT_CHAT_ROOM_ID)

SpecAdmission == InitAdmission /\ [][NextAdmission]_vars

---------------------------------------------------------------------------
(* Writes to a sink that fails                                             *)

\* sendToConnection, mutated: no try/catch around the write.
SendToConnectionNoCatch(w, connectionId, event) ==
    IF connectionId \notin DOMAIN w.connections
    THEN [w |-> w, result |-> FALSE, threw |-> FALSE]
    ELSE LET connection == w.connections[connectionId]
             s == connection.controller
             w1 == [w EXCEPT !.nextId = @ + 1]
             payload == FormatSSEEvent(event.type, event.data, w.nextId, "send")
         IN  IF s \notin DOMAIN w.streams \/ w.streams[s].closed
             THEN [w |-> w1, result |-> FALSE, threw |-> TRUE]
             ELSE [w |-> WEnqueue([w1 EXCEPT !.streams[s].sink = Append(@, payload)],
                                  connection.roomId, event.type, event.data),
                   result |-> TRUE, threw |-> FALSE]

\* sendToConnection(connectionId, event): false for an id that is not in the
\* table; else a fresh id, the write to the sink, the entry in the log of the
\* connection's room, true; the write to a closed stream throws, the catch
\* returns false.  threw tells whether the call threw.
SendToConnection(w, connectionId, event) ==
    IF connectionId \notin DOMAIN w.connections
    THEN [w |-> w, result |-> FALSE, threw |-> FALSE]
    ELSE LET connection == w.connections[connectionId]
             s == connection.controller
             w1 == [w EXCEPT !.nextId = @ + 1]
             payload == FormatSSEEvent(event.type, event.data, w.nextId, "send")
         IN  IF s \notin DOMAIN w.streams \/ w.streams[s].closed
             THEN [w |-> w1, result |-> FALSE, threw |-> FALSE]
             ELSE [w |-> WEnqueue([w1 EXCEPT !.streams[s].sink = Append(@, payload)],
                                  connection.roomId, event.type, event.data),
                   result |-> TRUE, threw |-> FALSE]

\* the loop of sendToUser over the user's connection ids in insertion
\* order; a call that throws leaves the loop
RECURSIVE SendToUserLoop(_, _, _, _)
SendToUserLoop(w, ids, event, sent) ==
    IF ids = {} THEN [w |-> w, sent |-> sent, threw |-> FALSE]
    ELSE LET connId == CHOOSE i \in ids : \A j \in ids : i <= j
             r == SendToConnection(w, connId, event)
         IN  IF r.threw THEN [w |-> r.w, sent |-> sent, threw |-> TRUE]
             ELSE SendToUserLoop(r.w, ids \ {connId}, event,
                                 IF r.result THEN sent + 1 ELSE sent)

\* sendToUser(userId, event): the state after the call, the returned count
\* and whether the call threw
SendToUser(w, userId, event) ==
    SendToUserLoop(w, IF userId \in DOMAIN w.userConnections
                      THEN w.userConnections[userId] ELSE {},
                   event, 0)

\* a caller sends a message to a user
SrvSendToUser(userId) ==
    /\ LET r == SendToUser(World, userId, [type |-> "chatMessage", data |-> [serial |-> 0]])
       IN  /\ Commit(r.w)
           /\ ret' = [op |-> "sendToUser", userId |-> userId, sent |-> r.sent,
                      threw |-> r.threw]
    /\ UNCHANGED <<clientVars, maxSize, timeVars>>

\* the runtime closes the stream of an open connection (the peer is gone);
\* cancel has not run yet, and every later write to the sink throws
SrvSinkBreaks(s) ==
    /\ streams[s].pc = "open"
    /\ ~streams[s].closed
    /\ streams' = [streams EXCEPT ![s].closed = TRUE]
    /\ ret' = [op |-> "sinkBreaks", stream |-> s]
    /\ UNCHANGED <<clientVars, regVars, queueVars, busVars, published, presence, intervals,
                   timeVars, nextId>>

\* streams of one user whose sinks break while messages are sent to the
\* user, broadcast to the room and heartbeats are written
InitFailure == InitServer

NextFailure ==
    \/ SrvStart(MaxFailureStreams, ReplayUser, NullId)
    \/ \E s \in DOMAIN streams : SrvStartResume(s, TRUE)
    \/ \E s \in DOMAIN streams : SrvSinkBreaks(s)
    \/ \E s \in DOMAIN streams : SrvCancel(s)
    \/ \E s \in DOMAIN streams : SrvCancelResume(s, TRUE)
    \/ nextId <= MaxFailureIds /\ SrvBroadcast(DEFAULT_CHAT_ROOM_ID)
    \/ nextId <= MaxFailureIds /\ SrvSendHeartbeats
    \/ nextId <= MaxFailureIds /\ SrvSendToUser(ReplayUser)

SpecFailure == InitFailure /\ [][NextFailure]_vars

---------------------------------------------------------------------------
(* Process shutdown                                                        *)

\* stopBackgroundTasks(): the manager's two intervals are cleared
StopBackgroundTasks(ivs) ==
    ivs \ {Interval("heartbeatInterval"), Interval("cleanupInterval")}

\* cleanup() of the endpoint's module: its three intervals are cleared, then
\* sseManager.stopBackgroundTasks()
ShutdownCleanup(ivs) ==
    StopBackgroundTasks(ivs \ {Interval("timeoutInterval"), Interval("buddyListInterval"),
                               Interval("connectionCleanupInterval")})

\* the handlers of SIGTERM and SIGINT: cleanup(), then process.exit(0).  The
\* state is kept as cleanup() left it; exited notes that the process has
\* ended, and nothing runs after it.  (beforeExit, which runs cleanup()
\* alone, is emitted only once nothing is scheduled, and the interval of the
\* catch-up log is never cleared.)
SrvShutdown(signal) ==
    /\ intervals' = ShutdownCleanup(intervals)
    /\ ret' = [op |-> "shutdown", signal |-> signal, exited |-> TRUE]
    /\ UNCHANGED <<clientVars, regVars, queueVars, busVars, streams, published, presence,
                   timeVars, nextId>>

\* process.exit has been called
Exited == ret.op = "shutdown"

\* streams open and close, messages are broadcast and heartbeats sent until
\* the process is told to stop
InitShutdown == InitServer

NextShutdown ==
    \/ ~Exited /\ \E u \in Users : SrvStart(MaxShutdownStreams, u, NullId)
    \/ ~Exited /\ \E s \in DOMAIN streams : SrvStartResume(s, TRUE)
    \/ ~Exited /\ \E s \in DOMAIN streams : SrvCancel(s)
    \/ ~Exited /\ \E s \in DOMAIN streams : SrvCancelResume(s, TRUE)
    \/ ~Exited /\ SrvBroadcast(DEFAULT_CHAT_ROOM_ID)
    \/ ~Exited /\ SrvSendHeartbeats
    \/ ~Exited /\ \E signal \in {"SIGTERM", "SIGINT"} : SrvShutdown(signal)

SpecShutdown == InitShutdown /\ [][NextShutdown]_vars

\* The stale sweep beside the bus: a stream is opened with no heartbeat
\* acknowledged, the clock passes, the sweep runs, the stream is cancelled,
\* and once a connection has been removed events are broadcast to the
\* default room.
InitEviction == InitServer

NextEviction ==
    \/ SrvStart(MaxEvictionStreams, ReplayUser, NullId)
    \/ \E s \in DOMAIN streams : SrvStartResume(s, TRUE)
    \/ \E s \in DOMAIN streams : SrvCancel(s)
    \/ \E s \in DOMAIN streams : SrvCancelResume(s, TRUE)
    \/ removals # {} /\ SrvBroadcast(DEFAULT_CHAT_ROOM_ID)
    \/ RegSweep
    \/ Tick

SpecEviction == InitEviction /\ [][NextEviction]_vars

\* The presence updates of concurrent streams: streams of the users open
\* and are cancelled, and the awaited updates of the presence store (each
\* its own request of the libsql client) land in any order.
InitPresence == InitServer

NextPresence ==
    \/ \E u \in Users : SrvStart(MaxPresenceStreams, u, NullId)
    \/ \E s \in DOMAIN streams : SrvStartResume(s, TRUE)
    \/ \E s \in DOMAIN streams : SrvCancel(s)
    \/ \E s \in DOMAIN streams : SrvCancelResume(s, TRUE)

SpecPresence == InitPresence /\ [][NextPresence]_vars

---------------------------------------------------------------------------
(* SSEClient.  The browser's EventSource is modelled as the standard       *)
(* defines it: a new EventSource has an empty last event ID string and     *)
(* sends its request without a Last-Event-ID header; an event with an id   *)
(* field sets the string; after a network error the object goes back to    *)
(* CONNECTING, fires error, and sends its next request with the string as  *)
(* Last-Event-ID; a refused request ends it in CLOSED with an error event; *)
(* a closed object fires nothing.                                          *)

\* the fields of the client, as a record the methods work on
Client ==
    [status |-> _status, lastEventId |-> _lastEventId, error |-> _error,
     reconnectAttempts |-> _reconnectAttempts, connectionId |-> _connectionId,
     eventSource |-> eventSource, heartbeatTimer |-> heartbeatTimer,
     reconnectTimer |-> reconnectTimer, requests |-> requests, acks |-> acks,
     transports |-> transports, timeouts |-> timeouts]

\* the step leaves the client as c says
CommitClient(c) ==
    /\ _status' = c.status
    /\ _lastEventId' = c.lastEventId
    /\ _error' = c.error
    /\ _reconnectAttempts' = c.reconnectAttempts
    /\ _connectionId' = c.connectionId
    /\ eventSource' = c.eventSource
    /\ heartbeatTimer' = c.heartbeatTimer
    /\ reconnectTimer' = c.reconnectTimer
    /\ requests' = c.requests
    /\ acks' = c.acks
    /\ transports' = c.transports
    /\ timeouts' = c.timeouts

RECURSIVE Pow2(_)
Pow2(n) == IF n = 0 THEN 1 ELSE 2 * Pow2(n - 1)

Min(a, b) == IF a <= b THEN a ELSE b

\* the exponential delay, mutated: not capped at max
ExponentialDelayUncapped(attempts) == INITIAL_RECONNECT_DELAY * Pow2(attempts)

\* Math.min(base * Math.pow(2, attempts), max)
ExponentialDelay(attempts) ==
    Min(INITIAL_RECONNECT_DELAY * Pow2(attempts), MAX_RECONNECT_DELAY)

\* calculateBackoff() with Math.random() = random / RandomLevels:
\* Math.floor(exponentialDelay + exponentialDelay * Math.random() * 0.25)
CalculateBackoff(attempts, random) ==
    ExponentialDelay(attempts) + (ExponentialDelay(attempts) * random) \div (4 * RandomLevels)

\* getReconnectDelay() === null
NoDelay == -1

\* getReconnectDelay(): null unless reconnecting; else
\* Math.ceil(Math.min(base * Math.pow(2, attempts - 1), max) / 1000), where
\* Math.pow(2, -1) is 0.5
GetReconnectDelay(status, attempts) ==
    IF status # "reconnecting" THEN NoDelay
    ELSE LET exponentialDelay ==
                 IF attempts = 0
                 THEN Min(INITIAL_RECONNECT_DELAY \div 2, MAX_RECONNECT_DELAY)
                 ELSE ExponentialDelay(attempts - 1)
         IN  (exponentialDelay + 999) \div 1000

\* the readyState of the EventSource the client holds becomes rs; the
\* object the client holds is the one it built last
SetReadyState(c, rs) ==
    IF c.eventSource.readyState = "null" THEN c
    ELSE [c EXCEPT !.eventSource.readyState = rs,
                   !.transports[Len(c.transports)] = rs]

\* cleanup(), mutated: the reconnect timeout is not cleared
CleanupKeepsReconnectTimer(c) ==
    [SetReadyState(c, "CLOSED") EXCEPT !.heartbeatTimer = NoTimer,
                                       !.eventSource = NoSource]

\* cleanup(): both timers cleared, the transport closed and released
Cleanup(c) ==
    [SetReadyState(c, "CLOSED") EXCEPT !.heartbeatTimer = NoTimer,
                                       !.reconnectTimer = NoReconnectTimer,
                                       !.eventSource = NoSource]

\* clearHeartbeatTimer()
ClearHeartbeatTimer(c) == [c EXCEPT !.heartbeatTimer = NoTimer]

\* this.heartbeatTimer = setTimeout(..., HEARTBEAT_TIMEOUT): a timeout the
\* field still referred to stays pending with no reference to it
SetHeartbeatTimeout(c) ==
    [c EXCEPT !.heartbeatTimer = now + HEARTBEAT_TIMEOUT,
              !.timeouts.heartbeatFor = Len(c.transports),
              !.timeouts.orphans =
                  IF c.heartbeatTimer = NoTimer THEN @
                  ELSE @ \cup {[kind |-> "heartbeat", due |-> c.heartbeatTimer,
                                armedFor |-> c.timeouts.heartbeatFor]}]

\* startHeartbeatMonitor(), mutated: a pending timeout is left as it is
StartHeartbeatMonitorOnce(c) ==
    IF c.heartbeatTimer # NoTimer THEN c ELSE SetHeartbeatTimeout(c)

\* startHeartbeatMonitor(), mutated: the old timeout is not cleared
StartHeartbeatMonitorNoClear(c) == SetHeartbeatTimeout(c)

\* startHeartbeatMonitor(): the old timeout cleared, a new one armed
StartHeartbeatMonitor(c) == SetHeartbeatTimeout(ClearHeartbeatTimer(c))

\* this.reconnectTimer = setTimeout(() => this.connect(), delay)
SetReconnectTimeout(c, delay, exponentialDelay) ==
    [c EXCEPT !.reconnectTimer = [handle |-> TRUE, pending |-> TRUE,
                                  due |-> now + delay,
                                  exponentialDelay |-> exponentialDelay],
              !.timeouts.reconnectFor = Len(c.transports),
              !.timeouts.orphans =
                  IF ~c.reconnectTimer.pending THEN @
                  ELSE @ \cup {[kind |-> "reconnect", due |-> c.reconnectTimer.due,
                                armedFor |-> c.timeouts.reconnectFor]}]

\* handleDisconnection(), mutated: connect() is not scheduled
HandleDisconnectionGivesUp(c, random) ==
    [Cleanup(c) EXCEPT !.status = "reconnecting", !.reconnectAttempts = @ + 1]

\* handleDisconnection(): cleanup, status reconnecting, one more attempt, and
\* connect() scheduled after the backoff
HandleDisconnection(c, random) ==
    LET c1 == [Cleanup(c) EXCEPT !.status = "reconnecting", !.reconnectAttempts = @ + 1]
    IN  SetReconnectTimeout(c1, CalculateBackoff(c1.reconnectAttempts, random),
                            ExponentialDelay(c1.reconnectAttempts))

\* connect(), mutated: the readyState of the held transport is not tested
ConnectNoGuard(c, by, throws, random) ==
    LET c1 == [c EXCEPT !.status = "connecting", !.error = NoError]
    IN  IF throws
        THEN HandleDisconnection([c1 EXCEPT !.error = "Failed to connect"], random)
        ELSE [c1 EXCEPT
                !.eventSource = [readyState |-> "CONNECTING", lastEventId |-> NullId,
                                 requested |-> TRUE],
                !.transports = Append(@, "CONNECTING"),
                !.requests = Append(@, [by |-> by, lastEventId |-> NullId,
                                        received |-> c.lastEventId])]

\* connect(): nothing while a transport is connecting or open; else status
\* connecting and a new EventSource, whose request carries no Last-Event-ID;
\* a constructor that throws leads to handleDisconnection.  by is the
\* caller: the application, or the reconnect timeout.
Connect(c, by, throws, random) ==
    IF c.eventSource.readyState \notin {"null", "CLOSED"} THEN c
    ELSE LET c1 == [c EXCEPT !.status = "connecting", !.error = NoError]
         IN  IF throws
             THEN HandleDisconnection([c1 EXCEPT !.error = "Failed to connect"], random)
             ELSE [c1 EXCEPT
                     !.eventSource = [readyState |-> "CONNECTING", lastEventId |-> NullId,
                                      requested |-> TRUE],
                     !.transports = Append(@, "CONNECTING"),
                     !.requests = Append(@, [by |-> by, lastEventId |-> NullId,
                                             received |-> c.lastEventId])]

\* disconnect(): cleanup, status disconnected, the connection id forgotten
Disconnect(c) ==
    [Cleanup(c) EXCEPT !.status = "disconnected", !.connectionId = NullId]

Randoms == 0..(RandomLevels - 1)

\* the application calls connect()
ClConnect(throws, random) ==
    /\ Len(requests) < MaxRequests
    /\ throws => _reconnectAttempts < MaxAttempts
    /\ CommitClient(Connect(Client, "application", throws, random))
    /\ ret' = [op |-> "connect", throws |-> throws]
    /\ UNCHANGED <<regVars, queueVars, busVars, httpVars, timeVars, nextId>>

\* the application calls disconnect()
ClDisconnect ==
    /\ CommitClient(Disconnect(Client))
    /\ ret' = [op |-> "disconnect"]
    /\ UNCHANGED <<regVars, queueVars, busVars, httpVars, timeVars, nextId>>

\* onopen, mutated: the attempt counter is not reset
EsOpenKeepsAttempts ==
    /\ eventSource.readyState = "CONNECTING"
    /\ eventSource.requested
    /\ CommitClient(StartHeartbeatMonitor(
          [SetReadyState(Client, "OPEN") EXCEPT
                         !.status = "connected",
                         !.error = NoError]))
    /\ ret' = [op |-> "onopen"]
    /\ UNCHANGED <<regVars, queueVars, busVars, httpVars, timeVars, nextId>>

\* the response arrives: the transport is open and onopen runs
EsOpen ==
    /\ eventSource.readyState = "CONNECTING"
    /\ eventSource.requested
    /\ CommitClient(StartHeartbeatMonitor(
          [SetReadyState(Client, "OPEN") EXCEPT
                         !.status = "connected",
                         !.reconnectAttempts = 0,
                         !.error = NoError]))
    /\ ret' = [op |-> "onopen"]
    /\ UNCHANGED <<regVars, queueVars, busVars, httpVars, timeVars, nextId>>

\* the connection drops: the transport goes back to CONNECTING and onerror
\* runs with that readyState
EsNetworkError ==
    /\ \/ eventSource.readyState = "OPEN"
       \/ eventSource.readyState = "CONNECTING" /\ eventSource.requested
    /\ CommitClient([SetReadyState(Client, "CONNECTING") EXCEPT
                                   !.eventSource.requested = FALSE,
                                   !.status = "reconnecting"])
    /\ ret' = [op |-> "onerror", readyState |-> "CONNECTING"]
    /\ UNCHANGED <<regVars, queueVars, busVars, httpVars, timeVars, nextId>>

\* the transport reconnects by itself: its request carries its last event ID
\* string
EsRetry ==
    /\ Len(requests) < MaxRequests
    /\ eventSource.readyState = "CONNECTING"
    /\ ~eventSource.requested
    /\ CommitClient([Client EXCEPT
                       !.eventSource.requested = TRUE,
                       !.requests = Append(@, [by |-> "transport",
                                               lastEventId |-> eventSource.lastEventId,
                                               received |-> _lastEventId])])
    /\ ret' = [op |-> "retry"]
    /\ UNCHANGED <<regVars, queueVars, busVars, httpVars, timeVars, nextId>>

\* the request is refused: the transport is CLOSED and onerror runs with
\* that readyState
EsFail(random) ==
    /\ eventSource.readyState = "CONNECTING"
    /\ eventSource.requested
    /\ CommitClient(HandleDisconnection(SetReadyState(Client, "CLOSED"), random))
    /\ ret' = [op |-> "onerror", readyState |-> "CLOSED"]
    /\ UNCHANGED <<regVars, queueVars, busVars, httpVars, timeVars, nextId>>

\* an event of the given type arrives on the open transport, with a fresh id
\* or without an id field; its listener runs: trackEventId, and for a
\* heartbeat the connection id, the acknowledgment and the monitor reset.
\* The data of the server's frames is always valid JSON.
EsEvent(type, hasId) ==
    /\ nextId <= MaxFrames
    /\ eventSource.readyState = "OPEN"
    /\ LET src == IF hasId THEN [eventSource EXCEPT !.lastEventId = nextId]
                  ELSE eventSource
           event == [type |-> type, lastEventId |-> src.lastEventId,
                     connectionId |-> Len(requests)]
           c1 == [Client EXCEPT !.eventSource = src,
                                !.lastEventId = IF event.lastEventId # NullId
                                                THEN event.lastEventId ELSE @]
           c2 == IF type = "heartbeat"
                 THEN StartHeartbeatMonitor(
                        [c1 EXCEPT !.connectionId = event.connectionId,
                                   !.acks = Append(@, [connectionId |-> event.connectionId])])
                 ELSE c1
       IN  /\ CommitClient(c2)
           /\ ret' = [op |-> "event", event |-> event]
    /\ nextId' = nextId + 1
    /\ UNCHANGED <<regVars, queueVars, busVars, httpVars, timeVars>>

\* the timeouts of a kind that are pending: the one the client's field
\* refers to, and those no field refers to
PendingTimeouts(kind) ==
    {t \in timeouts.orphans : t.kind = kind}
    \cup (IF kind = "heartbeat" /\ heartbeatTimer # NoTimer
          THEN {[kind |-> kind, due |-> heartbeatTimer,
                 armedFor |-> timeouts.heartbeatFor]}
          ELSE {})
    \cup (IF kind = "reconnect" /\ reconnectTimer.pending
          THEN {[kind |-> kind, due |-> reconnectTimer.due,
                 armedFor |-> timeouts.reconnectFor]}
          ELSE {})

\* the heartbeat timeout fires: the transport is closed, then
\* handleDisconnection
HeartbeatTimeout(random) ==
    /\ \E t \in PendingTimeouts("heartbeat") :
          /\ now >= t.due
          /\ CommitClient(HandleDisconnection(
                SetReadyState([Client EXCEPT !.timeouts.orphans = @ \ {t}], "CLOSED"),
                random))
          /\ ret' = [op |-> "heartbeatTimeout", armedFor |-> t.armedFor]
    /\ UNCHANGED <<regVars, queueVars, busVars, httpVars, timeVars, nextId>>

\* the reconnect timeout fires: connect()
ReconnectFires(throws, random) ==
    /\ Len(requests) < MaxRequests
    /\ throws => _reconnectAttempts < MaxAttempts
    /\ \E t \in PendingTimeouts("reconnect") :
          /\ now >= t.due
          /\ CommitClient(Connect(
                IF t \in timeouts.orphans
                THEN [Client EXCEPT !.timeouts.orphans = @ \ {t}]
                ELSE [Client EXCEPT !.reconnectTimer.pending = FALSE],
                "reconnectTimer", throws, random))
          /\ ret' = [op |-> "reconnect", throws |-> throws, armedFor |-> t.armedFor]
    /\ UNCHANGED <<regVars, queueVars, busVars, httpVars, timeVars, nextId>>

\* when the client's pending timeouts are due
ClientDeadlines ==
    {t.due : t \in PendingTimeouts("heartbeat") \cup PendingTimeouts("reconnect")}

\* the clock of the client: time passes up to the next timeout
ClTick ==
    /\ now < MaxTicks * TickMs
    /\ \A d \in ClientDeadlines : now < d
    /\ now' = IF \E d \in ClientDeadlines : d < now + TickMs
              THEN CHOOSE d \in ClientDeadlines : \A e \in ClientDeadlines : d <= e
              ELSE now + TickMs
    /\ ret' = [op |-> "tick"]
    /\ UNCHANGED <<clientVars, regVars, queueVars, busVars, httpVars, sweepDue, nextId>>

InitClient == InitRegistry

NextClient ==
    \/ \E t \in BOOLEAN, r \in Randoms : ClConnect(t, r)
    \/ ClDisconnect
    \/ EsOpen
    \/ EsNetworkError
    \/ EsRetry
    \/ \E r \in Randoms : EsFail(r)
    \/ \E t \in EventTypes, h \in BOOLEAN : EsEvent(t, h)
    \/ \E r \in Randoms : HeartbeatTimeout(r)
    \/ \E t \in BOOLEAN, r \in Randoms : ReconnectFires(t, r)
    \/ ClTick

SpecClient == InitClient /\ [][NextClient]_vars

\* the life cycle of the client: the same steps, the events between the
\* server's frames of data being heartbeats.  Math.random() returns 0 here:
\* the jitter only lengthens the reconnect delay, and no other timeout is
\* pending while the reconnect timeout is the only way on.
InitLifecycle == InitClient

\* connect() may run: it returns at once, the constructor not being called,
\* or the run may send one more request
CanConnect(throws) ==
    IF eventSource.readyState \in {"CONNECTING", "OPEN"} THEN ~throws
    ELSE Len(requests) < MaxLifecycleRequests

NextLifecycle ==
    \/ \E t \in BOOLEAN : CanConnect(t) /\ ClConnect(t, 0)
    \/ ClDisconnect
    \/ EsOpen
    \/ EsNetworkError
    \/ Len(requests) < MaxLifecycleRequests /\ EsRetry
    \/ EsFail(0)
    \/ EsEvent("heartbeat", FALSE)
    \/ HeartbeatTimeout(0)
    \/ \E t \in BOOLEAN :
          Len(requests) < MaxLifecycleRequests /\ ReconnectFires(t, 0)
    \/ ClTick

SpecLifecycle == InitLifecycle /\ [][NextLifecycle]_vars

\* the life cycle with the event loop's scheduling: time passes, and a
\* timeout that is due fires
InitRetry == InitLifecycle

NextRetry == NextLifecycle

SpecRetry ==
    /\ InitRetry
    /\ [][NextRetry]_vars
    /\ WF_vars(ClTick)
    /\ WF_vars(HeartbeatTimeout(0))
    /\ WF_vars(\E t \in BOOLEAN :
                  Len(requests) < MaxLifecycleRequests /\ ReconnectFires(t, 0))

\* the heartbeat monitor: streams that open, drop and are opened again,
\* with the server's frames of data arriving between the heartbeats
InitMonitor == InitLifecycle

NextMonitor ==
    \/ CanConnect(FALSE) /\ ClConnect(FALSE, 0)
    \/ EsOpen
    \/ EsNetworkError
    \/ Len(requests) < MaxLifecycleRequests /\ EsRetry
    \/ EsEvent("heartbeat", FALSE)
    \/ EsEvent("chatMessage", TRUE)
    \/ HeartbeatTimeout(0)
    \/ Len(requests) < MaxLifecycleRequests /\ ReconnectFires(FALSE, 0)
    \/ ClTick

SpecMonitor == InitMonitor /\ [][NextMonitor]_vars

\* the backoff: a client whose every attempt fails.  Time passes to the
\* moment the reconnect timeout is due, the timeout fires and calls
\* connect(), and the constructor throws or the request is refused.
BackoffWait ==
    /\ reconnectTimer.pending
    /\ now < reconnectTimer.due
    /\ now' = reconnectTimer.due
    /\ ret' = [op |-> "tick"]
    /\ UNCHANGED <<clientVars, regVars, queueVars, busVars, httpVars, sweepDue, nextId>>

BackoffFires(throws, random) ==
    /\ _reconnectAttempts < MaxBackoffAttempts
    /\ reconnectTimer.pending
    /\ now >= reconnectTimer.due
    /\ CommitClient(Connect([Client EXCEPT !.reconnectTimer.pending = FALSE],
                            "reconnectTimer", throws, random))
    /\ ret' = [op |-> "reconnect", throws |-> throws,
               armedFor |-> timeouts.reconnectFor]
    /\ UNCHANGED <<regVars, queueVars, busVars, httpVars, timeVars, nextId>>

InitBackoff == InitClient

NextBackoff ==
    \/ \E t \in BOOLEAN, r \in Randoms : _status = "disconnected" /\ ClConnect(t, r)
    \/ \E r \in Randoms : EsFail(r)
    \/ BackoffWait
    \/ \E t \in BOOLEAN, r \in Randoms : BackoffFires(t, r)

SpecBackoff == InitBackoff /\ [][NextBackoff]_vars

---------------------------------------------------------------------------
(* Properties of the registry, checked under SpecRegistry.                 *)

\* C1: after any sequence of addConnection, removeConnection and stale-sweep
\* evictions the user map mirrors the connection table: a user is a key iff
\* some connection in the table has that userId, the user's set is exactly
\* the ids of those connections, and no set is empty.
C1_UserMapMirrorsTable ==
    /\ DOMAIN userConnections = {connections[id].userId : id \in DOMAIN connections}
    /\ \A u \in DOMAIN userConnections :
          /\ userConnections[u] = {id \in DOMAIN connections : connections[id].userId = u}
          /\ userConnections[u] # {}

\* C1 happens: a sweep has evicted one connection and another one is left.
C1_Witness ==
    /\ ret.op = "cleanupStaleConnections"
    /\ ret.evicted # {}
    /\ DOMAIN connections # {}

\* C10: removeConnection with an id that is not in the table (never added, or
\* already removed) reports removed = false and isLastConnection = false and
\* leaves both registry maps unchanged.
C10_RemoveIsIdempotent ==
    [][(ret'.op = "removeConnection" /\ ret'.connectionId \notin DOMAIN connections)
         => /\ ret'.removed = FALSE
            /\ ret'.isLastConnection = FALSE
            /\ connections' = connections
            /\ userConnections' = userConnections]_vars

\* C10 happens: an id that was added and is gone again is removed a second
\* time while another connection is live.
C10_Witness ==
    /\ ret.op = "removeConnection"
    /\ ret.connectionId \in 1..(nextId - 1)
    /\ ~ret.removed
    /\ DOMAIN connections # {}


\* C11: addConnection(userId, ...) reports isNewUser = true if and only if
\* the user owned no live connection immediately before the call, for every
\* sequence of earlier adds, removes and evictions.
C11_IsNewUserIffNoLiveConnection ==
    [][ret'.op = "addConnection"
         => (ret'.isNewUser <=> ConnectionsOf(connections, ret'.userId) = {})]_vars

\* C11 happens: after an earlier connection has left the table, an add
\* reports a new user while no other connection is live
C11_Witness ==
    /\ ret.op = "addConnection"
    /\ ret.isNewUser
    /\ ret.connectionId > 1
    /\ DOMAIN connections = {ret.connectionId}

\* C12: removeConnection(id) of a live connection reports isLastConnection =
\* true if and only if the owning user has no live connection left
\* immediately after the call, and it removes only that connection (all other
\* connections and their fields are unchanged).
C12_IsLastIffNoneLeft ==
    [][(ret'.op = "removeConnection" /\ ret'.connectionId \in DOMAIN connections)
         => /\ ret'.removed
            /\ ret'.userId = connections[ret'.connectionId].userId
            /\ ret'.isLastConnection <=>
                 (ConnectionsOf(connections', connections[ret'.connectionId].userId) = {})
            /\ connections' = MapDelete(connections, ret'.connectionId)]_vars

\* C12 happens: a user with two connections loses one, and it is not the last
C12_Witness ==
    /\ ret.op = "removeConnection"
    /\ ret.removed
    /\ ~ret.isLastConnection
    /\ ConnectionsOf(connections, ret.userId) # {}

\* C13: a connection that stops acknowledging heartbeats is removed from the
\* registry no later than the stale timeout (HEARTBEAT_TIMEOUT) after its
\* last acknowledgment, given the stale sweep runs on its fixed interval
\* (STALE_CHECK_INTERVAL): no connection of the table is older than the
\* timeout since its last acknowledgment.
C13_EvictedWithinTimeout ==
    \A id \in DOMAIN connections :
        now - connections[id].lastHeartbeat <= HEARTBEAT_TIMEOUT

\* C13 happens: a sweep has evicted a connection
C13_Witness ==
    /\ ret.op = "cleanupStaleConnections"
    /\ ret.evicted # {}

\* C15: the stale sweep removes exactly the connections whose now -
\* lastHeartbeat is strictly greater than the timeout: a connection that
\* acknowledges every server heartbeat (interval shorter than the timeout) is
\* never evicted, and the sweep leaves every other connection and its
\* timestamps unchanged.
C15_SweepEvictsExactlyTheStale ==
    [][ret'.op = "cleanupStaleConnections"
         => LET stale == {id \in DOMAIN connections :
                            now - connections[id].lastHeartbeat > HEARTBEAT_TIMEOUT}
            IN  /\ ret'.evicted = stale
                /\ connections' = [id \in DOMAIN connections \ stale |-> connections[id]]
                /\ \A id \in DOMAIN connections :
                      now - connections[id].lastHeartbeat <= HEARTBEAT_INTERVAL
                          => id \in DOMAIN connections']_vars

\* C15 happens: a sweep evicts one connection and keeps another whose last
\* acknowledgment is exactly the timeout old
C15_Witness ==
    /\ ret.op = "cleanupStaleConnections"
    /\ ret.evicted # {}
    /\ \E id \in DOMAIN connections :
          ret.at - connections[id].lastHeartbeat = HEARTBEAT_TIMEOUT

\* C16: acknowledgeHeartbeat(id) on a live connection sets that connection's
\* lastHeartbeat and lastActivity to the current time, returns true and
\* changes nothing else; on an id not in the table it returns false and
\* changes no state (in particular it never re-creates a removed connection).
C16_AcknowledgeTouchesOneConnection ==
    [][ret'.op = "acknowledgeHeartbeat"
         => /\ ret'.result <=> ret'.connectionId \in DOMAIN connections
            /\ connections' =
                 [id \in DOMAIN connections |->
                    IF id = ret'.connectionId
                    THEN [connections[id] EXCEPT !.lastHeartbeat = now, !.lastActivity = now]
                    ELSE connections[id]]
            /\ UNCHANGED <<userConnections, queueVars, busVars, httpVars, timeVars, nextId>>]_vars

\* C16 happens: a live connection is acknowledged some time after it was
\* added, next to another connection
C16_Witness ==
    /\ ret.op = "acknowledgeHeartbeat"
    /\ ret.result
    /\ connections[ret.connectionId].lastHeartbeat > connections[ret.connectionId].connectedAt
    /\ Cardinality(DOMAIN connections) > 1

\* an id that was removed is acknowledged: the call reports false
C16_WitnessGone ==
    /\ ret.op = "acknowledgeHeartbeat"
    /\ ~ret.result
    /\ ret.connectionId \in 1..(nextId - 1)

---------------------------------------------------------------------------
(* The stale sweep and the stream's cancel handler on one connection.      *)

\* the calls of removeConnection for an id that reported isLastConnection
LastReports(connectionId) ==
    {r \in removals : r.connectionId = connectionId /\ r.isLastConnection}

\* the sweep evicted the stream's connection as its user's only one, and the
\* stream's cancel handler has called removeConnection for the same id since
EvictedAloneThenCancelled(s) ==
    /\ \E r \in removals : /\ r.by = "cleanupStaleConnections"
                           /\ r.connectionId = streams[s].connectionId
                           /\ r.alone
    /\ \E r \in removals : /\ r.by = "GET.cancel"
                           /\ r.connectionId = streams[s].connectionId

\* C14: when the stale sweep evicts a user's only connection and the
\* stream's cancel handler later calls removeConnection for the same id,
\* exactly one of the calls for that id reports isLastConnection = true (the
\* sweep's), and the cancel handler's call reports false.
C14_LastConnectionReportedOnce ==
    \A s \in DOMAIN streams :
        EvictedAloneThenCancelled(s) =>
            /\ Cardinality(LastReports(streams[s].connectionId)) = 1
            /\ \A r \in LastReports(streams[s].connectionId) :
                   r.by = "cleanupStaleConnections"
            /\ streams[s].pc = "done"

\* the case happens: a stream whose connection the sweep evicted alone has
\* been cancelled, and both calls are in the history
C14_Witness ==
    \E s \in DOMAIN streams :
        /\ EvictedAloneThenCancelled(s)
        /\ streams[s].closed
        /\ \E r \in removals : /\ r.by = "GET.cancel"
                               /\ r.connectionId = streams[s].connectionId
                               /\ ~r.removed /\ ~r.isLastConnection

---------------------------------------------------------------------------
(* Properties of the catch-up log, checked under SpecQueue and SpecTail.   *)

\* the last n entries of a history h, counted from its end
Newest(h, n) == [i \in 1..n |-> h[Len(h) - n + i]]

\* C5: for every room, after every enqueue the log is no longer than the
\* configured max size, and once more than max messages have been enqueued
\* the log holds exactly the max most recently enqueued ones, in insertion
\* order.
C5_LogBoundedNewestKept ==
    /\ DOMAIN queues = DOMAIN enqueued
    /\ \A r \in DOMAIN queues :
          /\ Len(queues[r]) <= maxSize
          /\ queues[r] = Newest(enqueued[r],
                                IF Len(enqueued[r]) > maxSize THEN maxSize
                                ELSE Len(enqueued[r]))

\* C5 happens: a room has been given more messages than the max size.
C5_Witness ==
    /\ ret.op = "enqueue"
    /\ Len(enqueued[ret.roomId]) > maxSize
    /\ maxSize > 1

\* the position of the entry with the given id in a log, 0 if there is none
PositionOf(q, id) ==
    IF \E i \in 1..Len(q) : q[i].id = id
    THEN CHOOSE i \in 1..Len(q) : q[i].id = id
    ELSE 0

\* the log of a room, empty when the room has none
LogOf(r) == IF r \in DOMAIN queues THEN queues[r] ELSE <<>>

\* C6: when lastEventId is the id of an entry of the room's log,
\* getMessagesSince returns exactly the entries inserted after that entry, in
\* insertion order, never the entry itself or an earlier one, and the empty
\* sequence when the entry is the latest.
C6_SinceKnownIdIsStrictSuffix ==
    (ret.op = "getMessagesSince" /\ PositionOf(LogOf(ret.roomId), ret.lastEventId) > 0)
    => LET q == LogOf(ret.roomId)
           p == PositionOf(q, ret.lastEventId)
       IN  /\ ret.result = [i \in 1..(Len(q) - p) |-> q[p + i]]
           /\ \A i \in 1..Len(ret.result) : ret.result[i].id > ret.lastEventId
           /\ (p = Len(q) => ret.result = <<>>)

\* C6 happens: the id is that of an entry with an earlier and a later one.
C6_Witness ==
    /\ ret.op = "getMessagesSince"
    /\ PositionOf(LogOf(ret.roomId), ret.lastEventId) > 1
    /\ ret.result # <<>>

\* C7: when lastEventId is not the id of any entry of the room's log,
\* getMessagesSince returns the most recent min(50, length) entries in
\* insertion order, never more than 50, and the empty sequence for a room
\* with no log.
C7_SinceUnknownIdIsRecentTail ==
    (ret.op = "getMessagesSince" /\ PositionOf(LogOf(ret.roomId), ret.lastEventId) = 0)
    => LET q == LogOf(ret.roomId)
           n == IF Len(q) > RecentTail THEN RecentTail ELSE Len(q)
       IN  /\ ret.result = Newest(q, n)
           /\ Len(ret.result) <= RecentTail
           /\ (ret.roomId \notin DOMAIN queues => ret.result = <<>>)

\* C7 happens: an id that was trimmed away is asked for in a log that is
\* longer than the cap.
C7_Witness ==
    /\ ret.op = "getMessagesSince"
    /\ ret.lastEventId \in 1..(nextId - 1)
    /\ PositionOf(LogOf(ret.roomId), ret.lastEventId) = 0
    /\ Len(LogOf(ret.roomId)) > RecentTail

---------------------------------------------------------------------------
(* Properties of the bus, checked under SpecEmitter.                       *)

\* the listeners of the broadcast channel, in registration order
SseListeners == IF "sse" \in DOMAIN listeners THEN listeners["sse"] ELSE <<>>

\* the step is a call of emit: the event carries the id that was fresh
EmitStep == ret'.op = "emit" /\ ret'.event.id = nextId

\* C8: if a listener throws during emit, emit itself does not throw, every
\* other listener registered on the channel still receives the event in the
\* same call, the throwing listener is removed (so no later emit, which calls
\* registered listeners only, invokes it) and the other listeners stay
\* registered for later events.
C8_ThrowingListenerIsolated ==
    [][EmitStep =>
         /\ ret'.threw = FALSE
         /\ \A i \in 1..Len(SseListeners) :
               \E j \in (Len(calls) + 1)..Len(calls') :
                   /\ calls'[j].listener = SseListeners[i]
                   /\ calls'[j].event = ret'.event
         /\ \A j \in (Len(calls) + 1)..Len(calls') : SeqHas(SseListeners, calls'[j].listener)
         /\ (IF "sse" \in DOMAIN listeners' THEN listeners'["sse"] ELSE <<>>)
                = SelectSeq(SseListeners, LAMBDA l : l \notin ret'.throwers)]_vars

\* C8 happens: a listener threw on one event, another listener received that
\* event after the throw, and a later emit reached the other listener and
\* not the one that threw.
C8_Witness ==
    /\ ret.op = "emit"
    /\ \E i, j, k \in 1..Len(calls) :
          /\ i < j /\ j < k
          /\ calls[i].threw
          /\ calls[j].event = calls[i].event
          /\ calls[j].listener # calls[i].listener
          /\ calls[k].event = ret.event
          /\ calls[k].event # calls[i].event
          /\ calls[k].listener = calls[j].listener
          /\ \A m \in 1..Len(calls) :
                calls[m].event = ret.event => calls[m].listener # calls[i].listener

\* C9: emit delivers the event, within the call, exactly once to every
\* listener that is registered on the 'sse' channel when emit is called, in
\* registration order; nobody else (a listener of another channel) is called.
C9_EmitDeliversInRegistrationOrder ==
    [][EmitStep =>
         /\ Len(calls') = Len(calls) + Len(SseListeners)
         /\ SubSeq(calls', 1, Len(calls)) = calls
         /\ \A i \in 1..Len(SseListeners) :
               /\ calls'[Len(calls) + i].listener = SseListeners[i]
               /\ calls'[Len(calls) + i].event = ret'.event]_vars

\* C9 happens: an emit reached two listeners, the one registered first being
\* the one with the larger key, while the other channel had a listener too.
C9_Witness ==
    /\ ret.op = "emit"
    /\ "other" \in DOMAIN listeners
    /\ \E i \in 1..(Len(calls) - 1) :
          /\ calls[i].event = ret.event
          /\ calls[i + 1].event = ret.event
          /\ calls[i].listener.key > calls[i + 1].listener.key


---------------------------------------------------------------------------
(* Properties of broadcast, checked under SpecBroadcast.                   *)

\* the entries getMessagesSince returns right after the last broadcast, asked
\* with the id that was the latest of the room before it
SinceBeforeBroadcast == GetMessagesSince(queues, ret.roomId, ret.latestBefore)

\* C4: for every room and every state of the registry (including no live
\* connection and no bus listener), broadcast(type, data, roomId) followed
\* immediately by getMessagesSince(roomId, id), where id was the latest id of
\* the room before the broadcast, returns a sequence that contains the
\* broadcast event.
C4_BroadcastIsInCatchUpLog ==
    (ret.op = "broadcast" /\ ret.roomId # NoRoom) =>
        \E i \in 1..Len(SinceBeforeBroadcast) :
            /\ SinceBeforeBroadcast[i].event = ret.type
            /\ SinceBeforeBroadcast[i].data = ret.data
            /\ SinceBeforeBroadcast[i].roomId = ret.roomId

\* a broadcast to a room that already had entries, while the registry holds
\* no connection and the bus no listener
C4_Witness ==
    /\ ret.op = "broadcast"
    /\ ret.roomId # NoRoom
    /\ ret.latestBefore # NullId
    /\ DOMAIN connections = {}
    /\ GetListenerCount(listeners, listenerCount, "sse") = 0
    /\ \E s \in DOMAIN streams : streams[s].pc = "done"

---------------------------------------------------------------------------
(* Catch-up end to end, checked under SpecServer.                          *)

\* the serial numbers of the chat messages among frames written by via
ChatSerials(sink, via) ==
    LET fs == SelectSeq(sink, LAMBDA f : f.via = via /\ f.event = "chatMessage")
    IN  [i \in 1..Len(fs) |-> fs[i].data.serial]

\* the chat frames that streams before s delivered live to the user of s
LiveChatFramesBefore(s) ==
    {f \in UNION {{streams[x].sink[i] : i \in 1..Len(streams[x].sink)} :
                   x \in {y \in DOMAIN streams : /\ y < s
                                                  /\ streams[y].userId = streams[s].userId}} :
        f.via = "live" /\ f.event = "chatMessage"}

\* stream s has written its catch-up, and its request presented the id of a
\* chat message that the user received live on an earlier stream
ResumesFromLiveEvent(s) ==
    /\ streams[s].pc # "awaitOnline"
    /\ \E f \in LiveChatFramesBefore(s) : f.id = streams[s].lastEventId

\* every chat message so far was broadcast to the room the streams read
AllInDefaultRoom ==
    \A i \in 1..Len(published) :
        published[i].source = "broadcast" => published[i].roomId = DEFAULT_CHAT_ROOM_ID

\* C2: end to end, a client that received event e1 live, was disconnected
\* while the server published e2 then e3, and then reconnects presenting e1,
\* receives exactly e2 and e3, in that order and each once, before any later
\* live event e4, and then receives e4.  With the chat messages numbered in
\* the order of their broadcast: a stream that resumes from message k
\* replays k+1 .. (the last one broadcast before the catch-up was read), and
\* its live chat frames go on from the next number.
C2_ReconnectReplaysExactlyMissed ==
    \A s \in DOMAIN streams :
        (AllInDefaultRoom /\ ResumesFromLiveEvent(s)) =>
            LET e1 == CHOOSE f \in LiveChatFramesBefore(s) : f.id = streams[s].lastEventId
                k == e1.data.serial
                upTo == streams[s].replayedAt
                replayed == ChatSerials(streams[s].sink, "replay")
                live == ChatSerials(streams[s].sink, "live")
            IN  /\ replayed = [i \in 1..(upTo - k) |-> k + i]
                /\ live = [i \in 1..Len(live) |-> upTo + i]

\* a stream that presented the id of a live chat frame has written its
\* catch-up
C2_Witness ==
    \E s \in DOMAIN streams : AllInDefaultRoom /\ ResumesFromLiveEvent(s)

---------------------------------------------------------------------------
(* The client's reconnect requests, checked under SpecClient.              *)

\* C3: on every reconnect of the client, including a connect() scheduled by
\* disconnection handling after a terminal transport error or a heartbeat
\* timeout, the new stream request presents the id of the last event the
\* client received, so that the server can compute the catch-up range.
C3_ReconnectPresentsLastEventId ==
    \A i \in 1..Len(requests) :
        requests[i].by \in {"reconnectTimer", "transport"} =>
            requests[i].lastEventId = requests[i].received

\* a request sent by the connect() that disconnection handling scheduled,
\* after the client had received an event with an id, and a request of the
\* transport's own reconnect that presents one
C3_Witness ==
    /\ \E i \in 1..Len(requests) :
          requests[i].by = "reconnectTimer" /\ requests[i].received # NullId
    /\ \E i \in 1..Len(requests) :
          requests[i].by = "transport" /\ requests[i].lastEventId # NullId


---------------------------------------------------------------------------
(* Properties of the client's life cycle, checked under SpecLifecycle.     *)

\* the transports the client has built that are not closed
LiveTransports == {i \in 1..Len(transports) : transports[i] # "CLOSED"}

\* the client holds a transport that is connecting or open
HoldsLiveTransport == eventSource.readyState \in {"CONNECTING", "OPEN"}

\* C17: at every moment at most one transport the client has built is not
\* closed, and it is the one the client holds; connect() while the held
\* transport is connecting or open, called by the application or by the
\* reconnect timeout, builds no transport, sends no request and changes no
\* field of the client, under every interleaving of connect(), disconnect(),
\* transport events and timer firings.
C17_AtMostOneLiveTransport ==
    /\ [](/\ Cardinality(LiveTransports) <= 1
          /\ LiveTransports # {} => /\ HoldsLiveTransport
                                    /\ LiveTransports = {Len(transports)})
    /\ [][(ret'.op = "connect" /\ HoldsLiveTransport) => UNCHANGED clientVars]_vars
    /\ [][(ret'.op = "reconnect" /\ HoldsLiveTransport)
            => /\ reconnectTimer' = [reconnectTimer EXCEPT !.pending = FALSE]
               /\ UNCHANGED <<_status, _lastEventId, _error, _reconnectAttempts,
                              _connectionId, eventSource, heartbeatTimer, requests,
                              acks, transports>>]_vars

\* C17 happens: connect() was called on a client that is connected through
\* its second transport, the first one being closed
C17_Witness ==
    /\ ret.op = "connect"
    /\ _status = "connected"
    /\ eventSource.readyState = "OPEN"
    /\ Len(transports) = 2
    /\ transports[1] = "CLOSED"


\* the client is at rest: status disconnected, no timeout pending, no
\* transport held and none left open
AtRest ==
    /\ _status = "disconnected"
    /\ heartbeatTimer = NoTimer
    /\ reconnectTimer = NoReconnectTimer
    /\ eventSource = NoSource
    /\ LiveTransports = {}

\* C18: disconnect() called in any reachable state leaves the client with
\* status disconnected, no heartbeat timeout, no reconnect timeout and no
\* open transport; from then on every step other than a call of connect()
\* leaves it so, sends no request, builds no transport and changes no status.
C18_DisconnectStopsEverything ==
    /\ [][ret'.op = "disconnect" => AtRest']_vars
    /\ [][(AtRest /\ ret'.op # "connect")
            => /\ AtRest'
               /\ _status' = _status
               /\ requests' = requests
               /\ transports' = transports]_vars

\* C18 happens: disconnect() was called during a reconnection (the attempt
\* counter is not reset by it) and time has passed since, nothing firing
C18_Witness ==
    /\ ret.op = "tick"
    /\ AtRest
    /\ _reconnectAttempts > 0
    /\ transports # <<>>


\* the edges of the documented state machine
DocumentedEdges ==
    {<<"disconnected", "connecting">>, <<"connecting", "connected">>,
     <<"connected", "reconnecting">>, <<"reconnecting", "connecting">>}
    \cup {<<st, "disconnected">> : st \in {"connecting", "connected", "reconnecting"}}

\* the values setStatus gives the status in one step, after the value
\* before it: a connect() whose constructor throws sets connecting and then,
\* in handleDisconnection, reconnecting
StatusesOfStep ==
    IF ret'.op \in {"connect", "reconnect"} /\ ret'.throws /\ ~HoldsLiveTransport
    THEN <<_status, "connecting", _status'>>
    ELSE <<_status, _status'>>

\* C19: the status starts at disconnected and every change of it follows an
\* edge of disconnected -> connecting -> connected -> reconnecting ->
\* connecting, or leads to disconnected; connected is entered only from
\* connecting.
C19_StatusFollowsDocumentedEdges ==
    /\ _status = "disconnected"
    /\ [][\A i \in 1..(Len(StatusesOfStep) - 1) :
            StatusesOfStep[i] # StatusesOfStep[i + 1]
                => <<StatusesOfStep[i], StatusesOfStep[i + 1]>> \in DocumentedEdges]_vars

\* the case of C19 that the single transport shows: the connection dropped,
\* the status became reconnecting, the transport retried by itself and its
\* onopen set the status to connected
C19_Witness ==
    /\ ret.op = "onopen"
    /\ _status = "connected"
    /\ Len(transports) = 1
    /\ Len(requests) = 2
    /\ requests[2].by = "transport"


---------------------------------------------------------------------------
(* Properties of the reconnect loop, checked under SpecRetry.              *)

\* the state handleDisconnection leaves: no transport, connect() scheduled
Handled ==
    /\ _status = "reconnecting"
    /\ eventSource = NoSource
    /\ reconnectTimer.pending

\* the run has reached the end of the modelled clock or of the modelled
\* requests
OutOfBounds == now >= MaxTicks * TickMs \/ Len(requests) >= MaxLifecycleRequests

\* C20: unless disconnect() is called the client never gives up: whenever
\* the status is not disconnected, a transport that is not closed exists or
\* the reconnect timeout is pending; and when timeouts fire fairly, every
\* handled disconnection is followed by a call of connect() (or by
\* disconnect()), after any number of consecutive failures the modelled
\* clock and requests allow.
C20_NeverGivesUp ==
    /\ [](_status # "disconnected" => (LiveTransports # {} \/ reconnectTimer.pending))
    /\ Handled ~> \/ ret.op \in {"connect", "reconnect"}
                  \/ _status = "disconnected"
                  \/ OutOfBounds

\* C20 happens: after two consecutive failures the reconnect timeout has
\* fired and connect() has sent a new request
C20_Witness ==
    /\ ret.op = "reconnect"
    /\ ~ret.throws
    /\ _reconnectAttempts >= 2
    /\ eventSource.readyState = "CONNECTING"
    /\ requests[Len(requests)].by = "reconnectTimer"


---------------------------------------------------------------------------
(* Properties of the backoff, checked under SpecBackoff.                   *)

\* handleDisconnection has just scheduled connect(): no time has passed
JustHandled == Handled /\ ret.op # "tick"

\* C21: the deterministic component of the delay scheduled for the k-th
\* consecutive attempt is 1000 ms for k = 1, 32000 ms for k = 6 and 60000 ms
\* for k >= 10, and the scheduled delay lies in [d, 1.25 * d].
C21_DelayTable ==
    JustHandled =>
        LET k == _reconnectAttempts
            d == reconnectTimer.exponentialDelay
            delay == reconnectTimer.due - now
        IN  /\ k = 1 => d = INITIAL_RECONNECT_DELAY
            /\ k = 6 => d = 32 * INITIAL_RECONNECT_DELAY
            /\ k >= 10 => d = MAX_RECONNECT_DELAY
            /\ d <= delay
            /\ 4 * delay <= 5 * d

\* the sixth consecutive failure has been handled: its delay is the cap
C21_Witness ==
    /\ JustHandled
    /\ _reconnectAttempts = 6
    /\ reconnectTimer.exponentialDelay = MAX_RECONNECT_DELAY
    /\ reconnectTimer.due - now > MAX_RECONNECT_DELAY

\* C22: over consecutive failed attempts the deterministic component of the
\* scheduled delay never decreases from one attempt to the next and never
\* exceeds MAX_RECONNECT_DELAY.
C22_DelayMonotoneAndCapped ==
    /\ [](Handled => reconnectTimer.exponentialDelay <= MAX_RECONNECT_DELAY)
    /\ [][(reconnectTimer.handle /\ Handled'
             /\ _reconnectAttempts' = _reconnectAttempts + 1)
            => reconnectTimer'.exponentialDelay >= reconnectTimer.exponentialDelay]_vars

\* C22 happens: the delay has reached the cap and the next failure has been
\* handled after it, by either way of failing
C22_Witness ==
    /\ JustHandled
    /\ _reconnectAttempts >= 8
    /\ reconnectTimer.exponentialDelay = MAX_RECONNECT_DELAY
    /\ Len(requests) >= 2
    /\ Len(requests) < _reconnectAttempts


---------------------------------------------------------------------------
(* Properties of disconnection handling and of the client's timeouts,     *)
(* checked under SpecLifecycle.                                            *)

\* the step runs handleDisconnection: onerror on a closed transport, the
\* heartbeat timeout, or connect() whose constructor throws
RunsHandleDisconnection ==
    \/ ret'.op = "onerror" /\ ret'.readyState = "CLOSED"
    \/ ret'.op = "heartbeatTimeout"
    \/ ret'.op \in {"connect", "reconnect"} /\ ret'.throws /\ ~HoldsLiveTransport

\* C23: every run of handleDisconnection ends with the heartbeat timeout
\* cancelled, the transport closed and released, status reconnecting, the
\* attempt counter one higher than before, and exactly one reconnect
\* timeout pending, the one the client's field refers to.
C23_HandlingLeavesOneReconnectTimer ==
    [][RunsHandleDisconnection =>
          /\ heartbeatTimer' = NoTimer
          /\ PendingTimeouts("heartbeat")' = {}
          /\ eventSource' = NoSource
          /\ LiveTransports' = {}
          /\ _status' = "reconnecting"
          /\ _reconnectAttempts' = _reconnectAttempts + 1
          /\ reconnectTimer'.handle /\ reconnectTimer'.pending
          /\ reconnectTimer'.due >= now
          /\ Cardinality(PendingTimeouts("reconnect")') = 1]_vars

\* C23 happens: a reconnect timeout was pending, the application called
\* connect(), the request was refused and the failure has been handled
C23_Witness ==
    /\ ret.op = "onerror"
    /\ ret.readyState = "CLOSED"
    /\ Handled
    /\ _reconnectAttempts = 2
    /\ requests[Len(requests)].by = "application"
    /\ now = 0


\* C24: while the stream is open a heartbeat timeout is pending and is due
\* HEARTBEAT_TIMEOUT after the stream opened or after the last heartbeat:
\* onopen and every heartbeat event arm the full timeout, an event of
\* another type leaves it as it is; when it fires, the transport is closed
\* and handleDisconnection has run.
C24_HeartbeatMonitor ==
    /\ [](eventSource.readyState = "OPEN"
            => /\ heartbeatTimer # NoTimer
               /\ now <= heartbeatTimer
               /\ heartbeatTimer <= now + HEARTBEAT_TIMEOUT)
    /\ [][(ret'.op = "onopen" \/ (ret'.op = "event" /\ ret'.event.type = "heartbeat"))
            => /\ heartbeatTimer' = now + HEARTBEAT_TIMEOUT
               /\ PendingTimeouts("heartbeat")' =
                      {[kind |-> "heartbeat", due |-> now + HEARTBEAT_TIMEOUT,
                        armedFor |-> Len(transports)]}]_vars
    /\ [][(ret'.op = "event" /\ ret'.event.type # "heartbeat")
            => /\ heartbeatTimer' = heartbeatTimer
               /\ timeouts' = timeouts]_vars
    /\ [][ret'.op = "heartbeatTimeout"
            => /\ now = heartbeatTimer
               /\ eventSource.readyState \in {"OPEN", "CONNECTING"}
               /\ LiveTransports' = {}
               /\ eventSource' = NoSource
               /\ Handled']_vars

\* C24 happens: the stream opened, a heartbeat arrived later and re-armed the
\* timeout, a frame of data arrived, and the timeout has fired
C24_Witness ==
    /\ ret.op = "heartbeatTimeout"
    /\ now > HEARTBEAT_TIMEOUT
    /\ acks # <<>>
    /\ _lastEventId # NullId
    /\ Handled


\* C25: whenever the stream opens, on the first connect or on any
\* reconnect, the status becomes connected, the attempt counter 0 and a
\* heartbeat timeout is armed; the counter then stays 0 until a failure is
\* handled, and that handling counts attempt 1 and schedules the delay of
\* attempt 1.
C25_OpenResetsBackoff ==
    /\ [][ret'.op = "onopen"
            => /\ _status' = "connected"
               /\ _reconnectAttempts' = 0
               /\ heartbeatTimer' = now + HEARTBEAT_TIMEOUT
               /\ PendingTimeouts("heartbeat")' # {}]_vars
    /\ [](eventSource.readyState = "OPEN" => _reconnectAttempts = 0)
    /\ [][_reconnectAttempts' # _reconnectAttempts
            => ret'.op = "onopen" \/ RunsHandleDisconnection]_vars
    /\ [][(RunsHandleDisconnection /\ _reconnectAttempts = 0)
            => /\ _reconnectAttempts' = 1
               /\ reconnectTimer'.exponentialDelay = ExponentialDelay(1)]_vars

\* C25 happens: a stream requested by the reconnect timeout, after a handled
\* failure, opened, and the failure after it has been handled as attempt 1
C25_Witness ==
    /\ Handled
    /\ _reconnectAttempts = 1
    /\ Len(requests) = 2
    /\ requests[2].by = "reconnectTimer"
    /\ ret.op = "heartbeatTimeout"


\* C26: at any time at most one heartbeat timeout and at most one reconnect
\* timeout is pending, each the one its field refers to; a pending heartbeat
\* timeout was set under the transport the client holds, which is not
\* closed, and fires against that transport only; a reconnect timeout that
\* fires after a newer transport was built changes nothing.
C26_TimeoutsAreSingleAndCurrent ==
    /\ [](/\ Cardinality(PendingTimeouts("heartbeat")) <= 1
          /\ Cardinality(PendingTimeouts("reconnect")) <= 1
          /\ timeouts.orphans = {})
    /\ [](heartbeatTimer # NoTimer
            => /\ HoldsLiveTransport
               /\ timeouts.heartbeatFor = Len(transports))
    /\ [][ret'.op = "heartbeatTimeout"
            => /\ ret'.armedFor = Len(transports)
               /\ HoldsLiveTransport]_vars
    /\ [][(ret'.op = "reconnect" /\ ret'.armedFor # Len(transports))
            => UNCHANGED <<_status, _lastEventId, _error, _reconnectAttempts,
                           _connectionId, eventSource, heartbeatTimer, requests,
                           acks, transports>>]_vars

\* C26 happens: the reconnect timeout set before the application's
\* connect() has fired while the newer transport is open, its heartbeat
\* timeout pending
C26_Witness ==
    /\ ret.op = "reconnect"
    /\ ret.armedFor < Len(transports)
    /\ eventSource.readyState = "OPEN"
    /\ heartbeatTimer # NoTimer
    /\ ~reconnectTimer.pending

---------------------------------------------------------------------------
(* Properties of the server's write order                                  *)

\* the broadcasts given to the bus with a room
RoomBroadcasts == {i \in 1..Len(published) : /\ published[i].source = "broadcast"
                                             /\ published[i].roomId # NoRoom}

\* the positions of the live frames that carry published event p in the
\* sink of stream s
LiveFramesOf(s, p) ==
    {k \in 1..Len(streams[s].sink) : /\ streams[s].sink[k].via = "live"
                                     /\ streams[s].sink[k].event = p.type
                                     /\ streams[s].sink[k].data = p.data}

\* what had been appended to the log of roomId when the id was drawn: ids
\* are drawn in the order of the statements that draw them
AppendedBefore(roomId, id) ==
    IF roomId \in DOMAIN enqueued
    THEN SelectSeq(enqueued[roomId], LAMBDA m : m.id < id)
    ELSE <<>>

\* C27: broadcast with a roomId appends the event to the room's log before
\* any listener receives it: when a sink is written with the live event,
\* the newest entry of the room's log, which the log's size limit never
\* evicts, is already an entry for that event.
C27_BroadcastLogsBeforeFanOut ==
    \A i \in RoomBroadcasts : \A s \in DOMAIN streams :
        \A k \in LiveFramesOf(s, published[i]) :
            LET before == AppendedBefore(published[i].roomId, streams[s].sink[k].id)
            IN  /\ maxSize >= 1
                /\ before # <<>>
                /\ before[Len(before)].event = published[i].type
                /\ before[Len(before)].data = published[i].data

C27_Witness ==
    \E i \in RoomBroadcasts : \E s \in DOMAIN streams :
        /\ LiveFramesOf(s, published[i]) # {}
        /\ published[i].roomId \in DOMAIN queues
        /\ \E j \in 1..Len(queues[published[i].roomId]) :
              /\ queues[published[i].roomId][j].data = published[i].data
              /\ \E k \in LiveFramesOf(s, published[i]) :
                    queues[published[i].roomId][j].id < streams[s].sink[k].id

\* the frames of a stream that a statement marked via wrote
FramesVia(sink, via) == SelectSeq(sink, LAMBDA f : f.via = via)

\* the catch-up frames of a list of log entries, as start formats them
ReplayFrames(messages) ==
    [i \in 1..Len(messages) |->
       FormatSSEEvent(messages[i].event, messages[i].data, messages[i].id, "replay")]

\* the streams whose request carried a Last-Event-ID
Resumed == {s \in DOMAIN streams : streams[s].lastEventId # NullId}

\* start of stream s passes its catch-up in this step
Replays(s) ==
    /\ s \in DOMAIN streams'
    /\ streams'[s].lastEventId # NullId
    /\ streams'[s].pc = "open"
    /\ s \in DOMAIN streams => streams[s].pc = "awaitOnline"

\* C28: on a stream opened with a Last-Event-ID the catch-up frames are
\* exactly getMessagesSince(roomId, lastEventId), read when start reaches the
\* catch-up, in log order; they are written one after the other, every
\* frame of a bus event comes after them, and none is written to the stream
\* before start has passed the catch-up.
C28_ReplayBeforeLive ==
    /\ [][\A s \in DOMAIN streams' :
            Replays(s) =>
                FramesVia(streams'[s].sink, "replay") =
                    ReplayFrames(GetMessagesSince(queues', DEFAULT_CHAT_ROOM_ID,
                                                  streams'[s].lastEventId))]_vars
    /\ [][\A s \in Resumed :
            streams[s].pc # "awaitOnline" =>
                /\ FramesVia(streams'[s].sink, "replay") =
                       FramesVia(streams[s].sink, "replay")
                /\ SubSeq(streams'[s].sink, 1, Len(streams[s].sink)) = streams[s].sink]_vars
    /\ [](\A s \in Resumed :
            LET sink == streams[s].sink
            IN  /\ streams[s].pc = "awaitOnline" => FramesVia(sink, "live") = <<>>
                /\ \A j, k \in 1..Len(sink) :
                      j < k => /\ ~(sink[j].via = "live" /\ sink[k].via = "replay")
                               /\ (sink[j].via = "replay" /\ sink[k].via = "replay")
                                    => \A m \in j..k : sink[m].via = "replay")

C28_Witness ==
    \E s \in Resumed :
        LET sink == streams[s].sink
        IN  /\ Len(sink) >= 4
            /\ sink[1].via = "heartbeat"
            /\ sink[2].via = "connect"
            /\ sink[3].via = "replay"
            /\ sink[Len(sink)].via = "live"

---------------------------------------------------------------------------
(* Properties of the requests the server refuses                           *)

\* the step is a heartbeat POST for a connection of the table that the
\* caller does not own
ForeignAcknowledgment ==
    /\ ret'.op = "POST heartbeat"
    /\ ret'.connectionId \in DOMAIN connections
    /\ connections[ret'.connectionId].userId # ret'.user

\* the step is a heartbeat POST of its owner for connection id, answered
\* with success
OwnersAcknowledgment(id) ==
    /\ ret'.op = "POST heartbeat"
    /\ ret'.connectionId = id
    /\ ret'.user = connections[id].userId
    /\ ret'.status = 200 /\ ret'.success

\* C29: a heartbeat POST for a connection the caller does not own is
\* answered with an error and leaves the registry as it was; the times of
\* a connection change only in a POST of its owner; so a connection that
\* outlives a sweep later than HEARTBEAT_TIMEOUT after it was added was
\* acknowledged by its owner.
C29_OnlyOwnerRefreshes ==
    /\ [][ForeignAcknowledgment
            => /\ ret'.status \in {401, 403}
               /\ ~ret'.success
               /\ UNCHANGED regVars]_vars
    /\ [][\A id \in DOMAIN connections \cap DOMAIN connections' :
            (\/ connections'[id].lastHeartbeat # connections[id].lastHeartbeat
             \/ connections'[id].lastActivity # connections[id].lastActivity)
                => OwnersAcknowledgment(id)]_vars
    /\ [][ret'.op = "cleanupStaleConnections"
            => \A id \in DOMAIN connections :
                 now - connections[id].connectedAt > HEARTBEAT_TIMEOUT
                    => \/ id \notin DOMAIN connections'
                       \/ connections[id].lastHeartbeat > connections[id].connectedAt]_vars

\* a connection that its owner acknowledged has outlived the sweep, and a
\* caller who does not own it is refused
C29_Witness ==
    /\ ret.op = "POST heartbeat"
    /\ ret.status = 403
    /\ ret.connectionId \in DOMAIN connections
    /\ sweepDue > STALE_CHECK_INTERVAL
    /\ now - connections[ret.connectionId].connectedAt > HEARTBEAT_TIMEOUT
    /\ connections[ret.connectionId].lastHeartbeat > connections[ret.connectionId].connectedAt

\* C30: a stream request without an authenticated user is refused with 401
\* and changes nothing: no connection is added to the registry, no listener
\* to the bus, nothing is written to the catch-up log or to any stream.
C30_UnauthenticatedRefused ==
    [][(ret'.op = "GET" /\ ret'.userId = NoUser)
         => /\ ret'.status = 401
            /\ UNCHANGED <<connections, userConnections, removals>>
            /\ UNCHANGED <<listeners, listenerCount, calls>>
            /\ UNCHANGED <<queues, enqueued>>
            /\ UNCHANGED <<streams, published, presence>>]_vars

\* a request without a user was refused while a stream is open, its
\* listener is on the bus and the log holds a message
C30_Witness ==
    /\ ret.op = "GET"
    /\ ret.userId = NoUser
    /\ ret.status = 401
    /\ DOMAIN connections # {}
    /\ listenerCount > 0
    /\ DEFAULT_CHAT_ROOM_ID \in DOMAIN queues

---------------------------------------------------------------------------
(* Properties of the server at large                                       *)

\* the listener of stream s is on the bus
Listening(s) ==
    /\ "sse" \in DOMAIN listeners
    /\ \E i \in 1..Len(listeners["sse"]) : listeners["sse"][i] = OnSSEOf(s)

\* the step wrote one frame, marked via, to the sink of s if the sink takes
\* writes, and nothing if it fails
WroteUnlessBroken(s, via) ==
    IF streams[s].closed
    THEN streams'[s].sink = streams[s].sink
    ELSE /\ Len(streams'[s].sink) = Len(streams[s].sink) + 1
         /\ streams'[s].sink[Len(streams'[s].sink)].via = via

\* C31: a sink that fails during sendToUser, the heartbeat task or the bus
\* fan-out does not keep the operation from writing to every other sink, the
\* caller sees no error, and the failing connection stays in the registry.
C31_FailingSinkIsPassedOver ==
    /\ [][ret'.op = "sendToUser"
            => /\ ~ret'.threw
               /\ UNCHANGED <<connections, userConnections>>
               /\ \A id \in ConnectionsOf(connections, ret'.userId) :
                     WroteUnlessBroken(connections[id].controller, "send")
               /\ ret'.sent = Cardinality({id \in ConnectionsOf(connections, ret'.userId) :
                                             ~streams[connections[id].controller].closed})]_vars
    /\ [][ret'.op = "sendHeartbeats"
            => /\ UNCHANGED <<connections, userConnections>>
               /\ \A id \in DOMAIN connections :
                     WroteUnlessBroken(connections[id].controller, "heartbeat")]_vars
    /\ [][ret'.op = "broadcast"
            => /\ UNCHANGED <<connections, userConnections>>
               /\ \A s \in DOMAIN streams : Listening(s) => WroteUnlessBroken(s, "live")
               /\ Len(calls') - Len(calls) =
                     Cardinality({s \in DOMAIN streams : Listening(s)})
               /\ \A i \in (Len(calls) + 1)..Len(calls') : ~calls'[i].threw]_vars

\* sendToUser has passed over the failing sink of the user's older
\* connection, which is still registered, and written to the newer one
C31_Witness ==
    /\ ret.op = "sendToUser"
    /\ ret.sent = 1
    /\ ~ret.threw
    /\ \E a, b \in ConnectionsOf(connections, ret.userId) :
          /\ a < b
          /\ streams[connections[a].controller].closed
          /\ ~streams[connections[b].controller].closed
          /\ LET sink == streams[connections[b].controller].sink
             IN  sink # <<>> /\ sink[Len(sink)].via = "send"

\* C32, as the specification states it: once the shutdown handler has run,
\* no periodic task of the subsystem is scheduled (the manager's heartbeat
\* task and stale sweep, the cleanup of the catch-up log, the keep-alive of
\* any stream), the registry is empty and no listener is on the bus.
C32_ShutdownCancelsAndReleases ==
    ret.op = "shutdown"
        => /\ intervals = {}
           /\ DOMAIN connections = {}
           /\ DOMAIN listeners = {} /\ listenerCount = 0

\* the handler has run with a stream open: the intervals of the endpoint's
\* module and of the manager are cleared, those of the catch-up log and of
\* the stream are scheduled, the connection is registered and listening
C32_Witness ==
    /\ ret.op = "shutdown"
    /\ intervals = {Interval("MessageQueue.cleanupInterval"), KeepAliveInterval(1)}
    /\ DOMAIN connections # {}
    /\ Listening(1)
    /\ ~streams[1].closed

---------------------------------------------------------------------------
(* Properties of the catch-up log's cleanup                                *)

\* the entries of the log, by room and position, whose age at the time of
\* the clock is at least the TTL
Expired ==
    UNION {{<<r, i>> : i \in {j \in 1..Len(queues[r]) :
                                now - queues[r][j].timestamp >= MESSAGE_QUEUE_TTL}} :
           r \in DOMAIN queues}

\* q is a run of consecutive entries of h
IsRunOf(q, h) ==
    \E a \in 0..(Len(h) - Len(q)) : \A i \in 1..Len(q) : q[i] = h[a + i]

\* C33: cleanup() removes from every room exactly the entries whose age is
\* at least the TTL and returns their count; the other entries stay as they
\* are and in their order; a room left without entries is deleted.  With the
\* trimming of enqueue, the log of a room is always a run of consecutive
\* entries of what was enqueued for it.
C33_CleanupRemovesExpired ==
    /\ [][ret'.op = "cleanup"
            => /\ ret'.result = Cardinality(Expired)
               /\ DOMAIN queues' = {r \in DOMAIN queues :
                                      \E i \in 1..Len(queues[r]) : <<r, i>> \notin Expired}
               /\ \A r \in DOMAIN queues' :
                     queues'[r] = SelectSeq(queues[r],
                                            LAMBDA m : now - m.timestamp < MESSAGE_QUEUE_TTL)]_vars
    /\ [](\A r \in DOMAIN queues :
            /\ queues[r] # <<>>
            /\ r \in DOMAIN enqueued
            /\ IsRunOf(queues[r], enqueued[r]))

\* cleanup() has removed entries of two ages, one of them exactly the TTL,
\* and kept a younger entry of the same room
C33_Witness ==
    /\ ret.op = "cleanup"
    /\ ret.result >= 2
    /\ \E r \in DOMAIN queues :
          /\ \E i \in 1..Len(enqueued[r]) :
                ret.at - enqueued[r][i].timestamp = MESSAGE_QUEUE_TTL
          /\ \E i \in 1..Len(enqueued[r]) :
                ret.at - enqueued[r][i].timestamp > MESSAGE_QUEUE_TTL
          /\ Len(queues[r]) < Len(enqueued[r])
          /\ queues[r][1].timestamp > 0

---------------------------------------------------------------------------
(* Properties of the log against the bus                                   *)

\* the broadcasts among the events given to the bus
Broadcasts == {i \in 1..Len(published) : published[i].source = "broadcast"}

\* the entries ever appended to the log of roomId for published event p
EntriesFor(roomId, p) ==
    IF roomId \in DOMAIN enqueued
    THEN {k \in 1..Len(enqueued[roomId]) : /\ enqueued[roomId][k].event = p.type
                                            /\ enqueued[roomId][k].data = p.data}
    ELSE {}

\* how many entries the logs of all rooms were appended for p
TimesLogged(p) ==
    Cardinality(UNION {{<<r, k>> : k \in EntriesFor(r, p)} : r \in DOMAIN enqueued})

\* how many listeners were called with published event p
TimesDelivered(p) ==
    Cardinality({k \in 1..Len(calls) : /\ calls[k].event.type = p.type
                                        /\ calls[k].event.data = p.data})

\* C34, as the specification states it: every published event is appended
\* to the catch-up log exactly once, however many listeners are on the bus
\* when it is published.
C34_PublishLogsOnce ==
    \A i \in Broadcasts : TimesLogged(published[i]) = 1

\* a broadcast to the room that one stream listened to has two entries in
\* the room's log, and a broadcast without a room that nobody listened to
\* has none
C34_Witness ==
    /\ \E i \in Broadcasts :
          /\ published[i].roomId = DEFAULT_CHAT_ROOM_ID
          /\ TimesDelivered(published[i]) = 1
          /\ Cardinality(EntriesFor(DEFAULT_CHAT_ROOM_ID, published[i])) = 2
    /\ \E i \in Broadcasts :
          /\ published[i].roomId = NoRoom
          /\ TimesDelivered(published[i]) = 0
          /\ TimesLogged(published[i]) = 0

\* C35, as the specification states it: an event carries one id everywhere:
\* the id of the live frame of a broadcast on every sink is the id given to
\* emit and the id of the event's entry in the catch-up log.
C35_OneIdEverywhere ==
    \A i \in Broadcasts : \A s \in DOMAIN streams :
        \A k \in LiveFramesOf(s, published[i]) :
            /\ streams[s].sink[k].id = published[i].id
            /\ \E r \in DOMAIN enqueued : \E e \in EntriesFor(r, published[i]) :
                  enqueued[r][e].id = streams[s].sink[k].id

\* the live frame of a broadcast, the event on the bus and the entries of
\* the log carry ids that differ from one another
C35_Witness ==
    \E i \in Broadcasts : \E s \in DOMAIN streams :
        \E k \in LiveFramesOf(s, published[i]) :
            /\ published[i].roomId = DEFAULT_CHAT_ROOM_ID
            /\ streams[s].sink[k].id # published[i].id
            /\ Cardinality(EntriesFor(DEFAULT_CHAT_ROOM_ID, published[i])) = 2
            /\ \A e \in EntriesFor(DEFAULT_CHAT_ROOM_ID, published[i]) :
                  enqueued[DEFAULT_CHAT_ROOM_ID][e].id
                      \notin {streams[s].sink[k].id, published[i].id}
            /\ GetMessagesSince(queues, DEFAULT_CHAT_ROOM_ID, streams[s].sink[k].id)
                  = SliceLast(queues[DEFAULT_CHAT_ROOM_ID], RecentTail)

---------------------------------------------------------------------------
(* Properties of presence against the registry                             *)

\* the calls of removeConnection that took the last live connection of
\* userId out of the registry
LastLeaves(userId) ==
    {r \in removals : r.removed /\ r.alone /\ r.userId = userId}

\* the presence-offline updates given to the bus for userId
OfflineUpdates(userId) ==
    {i \in 1..Len(published) : /\ published[i].source = "presence"
                                /\ published[i].type = "userStatusUpdate"
                                /\ published[i].data.status = "offline"
                                /\ published[i].data.userId = userId}

\* the cancel handlers of userId's streams that await the presence store
OfflineInFlight(userId) ==
    {s \in DOMAIN streams : streams[s].userId = userId /\ streams[s].pc = "awaitOffline"}

\* C36, as the specification states it: every time a user's last live
\* connection leaves the registry, by cancel or by the stale sweep, one
\* presence-offline update for the user is emitted: the updates emitted and
\* the ones a cancel handler is about to emit are as many as the times the
\* last connection left.
C36_OfflineOncePerLastLeave ==
    \A u \in Users :
        Cardinality(OfflineUpdates(u)) + Cardinality(OfflineInFlight(u))
            = Cardinality(LastLeaves(u))

\* the sweep evicted a user's only connection, the stream's cancel has run
\* to its end since, and no offline update for the user was emitted: the
\* presence store still says online
C36_Witness ==
    \E s \in DOMAIN streams :
        /\ EvictedAloneThenCancelled(s)
        /\ streams[s].pc = "done"
        /\ ConnectionsOf(connections, streams[s].userId) = {}
        /\ OfflineUpdates(streams[s].userId) = {}
        /\ presence[streams[s].userId] = "online"

---------------------------------------------------------------------------
(* Properties of the listeners against the registry                        *)

\* the connection of stream s is in the registry
Registered(s) == streams[s].connectionId \in DOMAIN connections

\* the step appended a live frame to the sink of s
WroteLive(s) ==
    /\ Len(streams'[s].sink) > Len(streams[s].sink)
    /\ streams'[s].sink[Len(streams'[s].sink)].via = "live"

\* C37, as the specification states it: a stream's listener is on the bus
\* and its keep-alive interval is scheduled only while its connection is in
\* the registry, no live event is written to the sink of a connection that
\* has left the registry, and the registered connection of a stream that
\* has started and was not aborted has its listener on the bus.
C37_ListenersFollowRegistry ==
    /\ [](\A s \in DOMAIN streams :
            /\ Listening(s) => Registered(s)
            /\ KeepAliveInterval(s) \in intervals => Registered(s)
            /\ Registered(s) /\ streams[s].pc = "open" /\ ~streams[s].closed
                   => Listening(s))
    /\ [][\A s \in DOMAIN streams : WroteLive(s) => Registered(s)]_vars

\* the sweep evicted the stream's connection, and the stream is still
\* listening with its keep-alive interval scheduled and has been written a
\* live event that was broadcast after the eviction
C37_Witness ==
    \E s \in DOMAIN streams :
        /\ \E r \in removals : /\ r.by = "cleanupStaleConnections"
                               /\ r.connectionId = streams[s].connectionId
                               /\ r.removed
        /\ ~Registered(s)
        /\ Listening(s)
        /\ KeepAliveInterval(s) \in intervals
        /\ ~streams[s].closed
        /\ ret.op = "broadcast"
        /\ streams[s].sink[Len(streams[s].sink)].via = "live"
        /\ streams[s].sink[Len(streams[s].sink)].data = published[Len(published)].data

---------------------------------------------------------------------------
(* Properties of presence under concurrent streams                         *)

\* the handlers of userId's streams that await the presence store
UpdatesInFlight(userId) ==
    {s \in DOMAIN streams : /\ streams[s].userId = userId
                             /\ streams[s].pc \in {"awaitOnline", "awaitOffline"}}

\* C38, as the specification states it: when streams of one user open and
\* close concurrently, in every state where none of the user's presence
\* updates is in flight the stored status is online exactly if the registry
\* holds a live connection of the user.
C38_PresenceMatchesRegistry ==
    \A u \in Users :
        UpdatesInFlight(u) = {} =>
            (presence[u] = "online" <=> ConnectionsOf(connections, u) # {})

\* a stream of the user was cancelled as the last one and a second stream
\* opened before the first one's update landed; both updates have landed,
\* the offline one last: the second stream is open and registered, and the
\* store says offline
C38_Witness ==
    \E s1, s2 \in DOMAIN streams :
        /\ s1 < s2
        /\ streams[s1].userId = streams[s2].userId
        /\ streams[s1].pc = "done"
        /\ streams[s2].pc = "open"
        /\ streams[s2].connectionId \in DOMAIN connections
        /\ UpdatesInFlight(streams[s2].userId) = {}
        /\ ret = [op |-> "GET.cancel.resume", stream |-> s1]
        /\ presence[streams[s2].userId] = "offline"

---------------------------------------------------------------------------
(* Properties of the bus's counts                                          *)

\* the sum over the channels of getListenerCount(channel)
RECURSIVE SumOfChannelCounts(_)
SumOfChannelCounts(channels) ==
    IF channels = {} THEN 0
    ELSE LET c == CHOOSE x \in channels : TRUE
         IN  GetListenerCount(listeners, listenerCount, c)
                 + SumOfChannelCounts(channels \ {c})

\* the listener is registered on the channel
RegisteredOn(channel, listener) ==
    channel \in DOMAIN listeners /\ SeqHas(listeners[channel], listener)

\* C39, as the specification states it: after any sequence of addListener
\* (the same listener twice included), removeListener, removeAllListeners
\* and emits with throwing listeners, getListenerCount() is the sum over the
\* channels of getListenerCount(channel) and is never negative, and
\* removeListener of a listener that is not registered returns false and
\* changes nothing.
C39_GlobalCountIsSumOfChannels ==
    /\ [](/\ GetListenerCount(listeners, listenerCount, NoChannel)
                = SumOfChannelCounts(Channels)
           /\ GetListenerCount(listeners, listenerCount, NoChannel) >= 0)
    /\ [][ret'.op = "removeListener" /\ ~RegisteredOn(ret'.channel, ret'.listener)
            => /\ ~ret'.result
               /\ UNCHANGED <<listeners, listenerCount, calls>>]_vars

\* a listener was added twice to a channel and removed once: no listener
\* is left on any channel, removing it again returned false, and
\* getListenerCount() is 1
C39_Witness ==
    /\ ret.op = "removeListener"
    /\ ~ret.result
    /\ DOMAIN listeners = {}
    /\ SumOfChannelCounts(Channels) = 0
    /\ GetListenerCount(listeners, listenerCount, NoChannel) = 1

---------------------------------------------------------------------------
(* Properties of the delay the client reports                              *)

\* C40, as the specification states it: while the client is reconnecting
\* with its reconnect timeout pending, getReconnectDelay() is the
\* exponential delay that calculateBackoff put into that timeout, in seconds
\* rounded up; in every other status it is null.
C40_ReportedDelayIsScheduledDelay ==
    /\ _status = "reconnecting" /\ reconnectTimer.pending
          => GetReconnectDelay(_status, _reconnectAttempts)
                 = (reconnectTimer.exponentialDelay + 999) \div 1000
    /\ _status # "reconnecting"
          => GetReconnectDelay(_status, _reconnectAttempts) = NoDelay

\* the first failure has been handled: the timeout was scheduled with an
\* exponential delay of 2000 ms, and getReconnectDelay() says 1 second
C40_Witness ==
    /\ _status = "reconnecting"
    /\ _reconnectAttempts = 1
    /\ reconnectTimer.pending
    /\ reconnectTimer.exponentialDelay = 2 * INITIAL_RECONNECT_DELAY
    /\ reconnectTimer.due >= now + 2 * INITIAL_RECONNECT_DELAY
    /\ GetReconnectDelay(_status, _reconnectAttempts) = 1

=========================================================================
